---- MODULE Spec2Model ----
(***************************************************************************)
(* A model of the JOSE envelope engine of josekit: the JweContext          *)
(* registries, the JweHeader data model and the compact / flattened-JSON   *)
(* serialization pipelines of src/src/jwe.rs.                              *)
(*                                                                         *)
(* Byte strings, JSON values and text are symbolic records.  Two records   *)
(* of different shape are different values:                                *)
(*   bytes  [raw |-> i]                      uninterpreted bytes           *)
(*          [json |-> <<[k, v], ...>>]       a JSON object text, in order  *)
(*          [zip_by, zip_of]                 compressed bytes              *)
(*          [ct_enc, ct_key, ct_iv, ct_msg]  AEAD ciphertext               *)
(*          [tag_enc, .., tag_aad, tag_msg]  AEAD authentication tag       *)
(*          [wrap_alg, wrap_key, wrap_cek]   a wrapped content key         *)
(*   JSON   [str |-> s], [num |-> n], [arr |-> <<values>>]                 *)
(*   text   a sequence of pieces: Dot, [b64 |-> bytes] (a run of base64url *)
(*          characters) or [lit |-> s] (characters outside that alphabet)  *)
(***************************************************************************)
EXTENDS Integers, Sequences, FiniteSets, TLC

VARIABLES
    content_encryptions,  \* JweContext.content_encryptions: name -> capability
    compressions,         \* JweContext.compressions: name -> capability
    hdr,                  \* the caller's JweHeader under construction
    msg,                  \* the last compact JWE the caller obtained, or NoMsg
    out,                  \* the call in progress: its arguments, what it invoked, its result
    jwt_payload,          \* the caller's JwtPayload
    validator,            \* the caller's JwtPayloadValidator
    ret,                  \* the last JWT-layer call: its arguments and its result
    signer,               \* the caller's HmacJwsSigner, if it has built one
    verifier,             \* the caller's HmacJwsVerifier, if it has built one
    jws,                  \* the last signer or verifier call: its arguments and its result
    acceptable_criticals, \* the acceptable critical claim names of the JweContext
    jws_context,          \* the JwsContext a JwtContext holds beside the JweContext
    kp                    \* the last key pair call: its arguments and its result

jwe_vars == <<content_encryptions, compressions, hdr, msg, out>>
jwt_vars == <<jwt_payload, validator, ret>>
jws_vars == <<signer, verifier, jws>>
ctx_vars == <<acceptable_criticals, jws_context, kp>>
vars == <<content_encryptions, compressions, hdr, msg, out, jwt_payload, validator, ret,
          signer, verifier, jws, acceptable_criticals, jws_context, kp>>

\* ------------------------------------------------------------------ bounds

NumPayloads == 2
NumIvs == 1
NumKeys == 2

\* ------------------------------------------------------------------ options

None == [none |-> TRUE]
Some(v) == [some |-> v]
IsSome(o) == "some" \in DOMAIN o

\* ------------------------------------------------------------------ maps

MapInsert(m, k, v) == [x \in (DOMAIN m) \cup {k} |-> IF x = k THEN v ELSE m[x]]
MapRemove(m, k) == [x \in (DOMAIN m) \ {k} |-> m[x]]
MapGet(m, k) == IF k \in DOMAIN m THEN Some(m[k]) ELSE None
EmptyMap == [x \in {} |-> None]

\* ------------------------------------------------------------------ JSON values

Str(s) == [str |-> s]
Num(n) == [num |-> n]
Arr(a) == [arr |-> a]
IsStr(v) == "str" \in DOMAIN v
IsArr(v) == "arr" \in DOMAIN v

\* ------------------------------------------------------------------ capabilities

\* The names JweContext::new registers.
BuiltinEncNames == {"A128CBC-HS256", "A192CBC-HS384", "A256CBC-HS512",
                    "A128GCM", "A192GCM", "A256GCM"}
BuiltinZipNames == {"DEF"}

\* A capability reports its own name; impl tells two implementations that
\* report the same name apart.
Cap(n, i) == [name |-> n, impl |-> i]

\* The capabilities a caller adds, and the names a caller removes.
AddableEncs == {Cap("A128GCM", "custom")}
RemovableEncNames == {"A128GCM"}
AddableZips == {Cap("DEF", "builtin")}
RemovableZipNames == {"DEF"}

\* ------------------------------------------------------------------ JweContext

JweContext_new_content_encryptions ==
    [n \in BuiltinEncNames |-> Cap(n, "builtin")]

JweContext_new_compressions ==
    [n \in BuiltinZipNames |-> Cap(n, "builtin")]

get_content_encryption(map, name) == MapGet(map, name)

add_content_encryption(map, c) == MapInsert(map, c.name, c)

\* BTreeMap::clear in the place of BTreeMap::remove.
remove_content_encryption_clear(map, name) == EmptyMap

remove_content_encryption(map, name) == MapRemove(map, name)

get_compression(map, name) == MapGet(map, name)

add_compression(map, c) == MapInsert(map, c.name, c)

remove_compression(map, name) == MapRemove(map, name)

\* ------------------------------------------------------------------ JweHeader

JweHeader_new == [claims |-> EmptyMap, sources |-> EmptyMap]

from_map(claims) == [claims |-> claims, sources |-> EmptyMap]

claims_set(h) == h.claims

claim(h, key) == MapGet(h.claims, key)

set_algorithm(h, value) ==
    [h EXCEPT !.claims = MapInsert(h.claims, "alg", Str(value))]

set_content_encryption(h, value) ==
    [h EXCEPT !.claims = MapInsert(h.claims, "enc", Str(value))]

\* unreachable!() aborts: the result is Panic, not an Option.
Panic == [panic |-> TRUE]
IsPanic(r) == "panic" \in DOMAIN r

content_encryption(h) ==
    IF "enc" \notin DOMAIN h.claims THEN None
    ELSE IF IsStr(h.claims["enc"]) THEN Some(h.claims["enc"].str)
    ELSE Panic

set_compression(h, value) ==
    [h EXCEPT !.claims = MapInsert(h.claims, "zip", Str(value))]

compression(h) ==
    IF "zip" \notin DOMAIN h.claims THEN None
    ELSE IF IsStr(h.claims["zip"]) THEN Some(h.claims["zip"].str)
    ELSE Panic

set_key_id(h, value) ==
    [h EXCEPT !.claims = MapInsert(h.claims, "kid", Str(value))]

key_id(h) ==
    IF "kid" \in DOMAIN h.claims /\ IsStr(h.claims["kid"])
    THEN Some(h.claims["kid"].str) ELSE None

set_token_type(h, value) ==
    [h EXCEPT !.claims = MapInsert(h.claims, "typ", Str(value))]

token_type(h) ==
    IF "typ" \in DOMAIN h.claims /\ IsStr(h.claims["typ"])
    THEN Some(h.claims["typ"].str) ELSE None

set_critical(h, values) ==
    [claims |-> MapInsert(h.claims, "crit", Arr([i \in DOMAIN values |-> Str(values[i])])),
     sources |-> MapInsert(h.sources, "crit", [StringArray |-> values])]

critical(h) ==
    IF "crit" \notin DOMAIN h.sources THEN None
    ELSE IF "StringArray" \in DOMAIN h.sources["crit"]
         THEN Some(h.sources["crit"].StringArray)
    ELSE Panic

\* JoseHeader::algorithm, a provided method of the trait JweHeader implements.
algorithm(h) ==
    IF "alg" \in DOMAIN h.claims /\ IsStr(h.claims["alg"])
    THEN Some(h.claims["alg"].str) ELSE None

\* ------------------------------------------------------------------ results

Ok(v) == [ok |-> v]
Err(kind, what) == [err |-> kind, what |-> what]
IsErr(r) == "err" \in DOMAIN r

\* The JoseError kinds a collaborator may report.
InvalidJweFormat == "InvalidJweFormat"
JoseErrorKinds == {"InvalidJweFormat", "InvalidKeyFormat"}

\* What a call leaves in out.res.
Failed(calls, kind, what) ==
    [status |-> "err", kind |-> kind, what |-> what, calls |-> calls]
Panicked(calls) == [status |-> "panic", calls |-> calls]

\* bail!(..) inside the closure: an anyhow error that is no JoseError, which
\* map_err wraps as JoseError::InvalidJweFormat.
Bail(calls, what) == Failed(calls, InvalidJweFormat, what)

\* ------------------------------------------------------------------ bytes and text

EmptyBytes == [raw |-> 0]
Payloads == {[raw |-> i] : i \in 1..NumPayloads}
Ivs == {[iv |-> i] : i \in 1..NumIvs}
Keys == {[k |-> i] : i \in 1..NumKeys}

Dot == [dot |-> "."]

\* base64::encode_config_buf(bytes, URL_SAFE_NO_PAD, ..): a run of base64url
\* characters, none of them '.'; the empty string for no bytes.
B64(b) == IF b = EmptyBytes THEN <<>> ELSE <<[b64 |-> b]>>

\* base64::decode_config(text, URL_SAFE_NO_PAD)
B64Decode(t) ==
    IF Len(t) = 0 THEN Ok(EmptyBytes)
    ELSE IF Len(t) = 1 /\ "b64" \in DOMAIN t[1] THEN Ok(t[1].b64)
    ELSE Err(InvalidJweFormat, "base64")

\* The claim names of the model in the byte order of their text, the order
\* in which serde_json's Map (a BTreeMap) is iterated.
KeyOrder == <<"alg", "aud", "crit", "cty", "enc", "exp", "iat", "iss", "jku", "jti",
             "jwk", "kid", "nbf", "role", "sub", "typ", "x5c", "x5t", "x5t#S256",
             "x5u", "zip">>

RECURSIVE PairsInOrder(_, _)
PairsInOrder(m, i) ==
    IF i > Len(KeyOrder) THEN <<>>
    ELSE (IF KeyOrder[i] \in DOMAIN m
          THEN <<[k |-> KeyOrder[i], v |-> m[KeyOrder[i]]]>> ELSE <<>>)
         \o PairsInOrder(m, i + 1)

\* serde_json::to_vec(header.claims_set())
to_vec(m) == [json |-> PairsInOrder(m, 1)]

\* serde_json::from_slice::<Map<String, Value>>: a later member replaces an
\* earlier one of the same name; anything but an object text is an error.
from_slice(b) ==
    IF "json" \notin DOMAIN b THEN Err(InvalidJweFormat, "json")
    ELSE LET p == b.json
             last(x) == CHOOSE i \in DOMAIN p :
                            /\ p[i].k = x
                            /\ \A j \in DOMAIN p : p[j].k = x => j <= i
         IN Ok([x \in {p[i].k : i \in DOMAIN p} |-> p[last(x)].v])

\* ------------------------------------------------------------------ collaborators

\* JweEncrypter / JweDecrypter: the algorithm name, the key and the
\* configured key id.
DirEncrypter(k, kid) == [alg |-> "dir", key |-> [k |-> k], key_id |-> kid]
KwEncrypter(k, kid) == [alg |-> "A128KW", key |-> [k |-> k], key_id |-> kid]

Encrypters == {DirEncrypter(1, None), DirEncrypter(1, Some("kid-1")),
               KwEncrypter(1, None)}
Decrypters == [alg : {"dir", "A128KW"}, key : Keys, key_id : {None, Some("kid-1")}]

\* encrypter.encrypt(key_len, &mut header): stamps alg; the direct algorithm
\* uses its own key as the content key and emits no wrapped key, a key
\* wrapping algorithm wraps a generated content key.  eok = FALSE is a
\* refusal (a key that does not fit key_len, a failing primitive), reported
\* as a JoseError of kind fk.
encrypt(encrypter, header, cek, eok, fk) ==
    IF ~eok THEN Err(fk, "encrypt")
    ELSE IF encrypter.alg = "dir"
    THEN [header |-> set_algorithm(header, encrypter.alg),
          key |-> encrypter.key, encrypted_key |-> None]
    ELSE [header |-> set_algorithm(header, encrypter.alg),
          key |-> cek,
          encrypted_key |-> Some([wrap_alg |-> encrypter.alg,
                                  wrap_key |-> encrypter.key, wrap_cek |-> cek])]

\* decrypter.decrypt(&header, &encrypted_key)
unwrap(decrypter, header, encrypted_key, fk) ==
    IF decrypter.alg = "dir"
    THEN IF encrypted_key = EmptyBytes THEN Ok(decrypter.key) ELSE Err(fk, "unwrap")
    ELSE IF /\ "wrap_key" \in DOMAIN encrypted_key
            /\ encrypted_key.wrap_alg = decrypter.alg
            /\ encrypted_key.wrap_key = decrypter.key
         THEN Ok(encrypted_key.wrap_cek)
         ELSE Err(fk, "unwrap")

\* cencryption.encrypt(key, iv, message, aad) -> (ciphertext, tag)
aead_encrypt(c, key, iv, message, aad) ==
    [ciphertext |-> [ct_enc |-> c, ct_key |-> key, ct_iv |-> iv, ct_msg |-> message],
     tag |-> [tag_enc |-> c, tag_key |-> key, tag_iv |-> iv, tag_aad |-> aad,
              tag_msg |-> message]]

\* cencryption.decrypt(key, iv, encrypted_message, aad, tag): the message, if
\* the tag authenticates ciphertext and aad under key and iv.
aead_decrypt(c, key, iv, encrypted_message, aad, tag, fk) ==
    IF /\ "ct_msg" \in DOMAIN encrypted_message
       /\ encrypted_message.ct_enc = c
       /\ encrypted_message.ct_key = key
       /\ encrypted_message.ct_iv = iv
       /\ tag = aead_encrypt(c, key, iv, encrypted_message.ct_msg, aad).tag
    THEN Ok(encrypted_message.ct_msg)
    ELSE Err(fk, "aead")

\* compression.compress / compression.decompress
compress(c, message) == [zip_by |-> c, zip_of |-> message]

decompress(c, message) ==
    IF "zip_by" \in DOMAIN message /\ message.zip_by = c
    THEN Ok(message.zip_of)
    ELSE Err(InvalidJweFormat, "io")

Call(f) == [fn |-> f]

\* ------------------------------------------------------------------ compact serialization

\* The kid of the encrypter goes into a header that has none.
default_fill_kid_always(header, encrypter) ==
    IF IsSome(encrypter.key_id) THEN set_key_id(header, encrypter.key_id.some) ELSE header

default_fill_kid(header, encrypter) ==
    IF ~IsSome(claim(header, "kid")) /\ IsSome(encrypter.key_id)
    THEN set_key_id(header, encrypter.key_id.some)
    ELSE header

\* JweContext::serialize_compact_with_selector.  sel is what the selector
\* returns for this header; cek and iv are the random draws; eok and fk are
\* the encrypter's verdict.
serialize_compact_with_selector(ces, zips, payload, header, sel, cek, iv, eok, fk) ==
    LET c1 == <<Call("selector")>> IN
    IF ~IsSome(sel) THEN Bail(c1, "A encrypter is not found.")
    ELSE
    LET encrypter == sel.some
        e == content_encryption(header)
    IN
    IF IsPanic(e) THEN Panicked(c1)
    ELSE IF ~IsSome(e) THEN Bail(c1, "A enc header claim is required.")
    ELSE IF ~IsSome(get_content_encryption(ces, e.some))
    THEN Bail(c1, "A content encryption is not registered")
    ELSE
    LET cencryption == get_content_encryption(ces, e.some).some
        z == compression(header)
    IN
    IF IsPanic(z) THEN Panicked(c1)
    ELSE IF IsSome(z) /\ ~IsSome(get_compression(zips, z.some))
    THEN Bail(c1, "A compression algorithm is not registered")
    ELSE
    LET comp == IF IsSome(z) THEN get_compression(zips, z.some) ELSE None
        r == encrypt(encrypter, header, cek, eok, fk)
        c2 == Append(c1, Call("encrypt"))
    IN
    IF IsErr(r) THEN Failed(c2, r.err, r.what)
    ELSE
    LET h2 == default_fill_kid(r.header, encrypter)
        header_bytes == to_vec(claims_set(h2))
        content == IF IsSome(comp) THEN compress(comp.some, payload) ELSE payload
        c3 == IF IsSome(comp) THEN Append(c2, Call("compress")) ELSE c2
        ct == aead_encrypt(cencryption, r.key, iv, content, header_bytes)
        c4 == Append(c3, [fn |-> "aead_encrypt", aad |-> header_bytes])
        message == B64(header_bytes) \o <<Dot>>
                   \o (IF IsSome(r.encrypted_key) THEN B64(r.encrypted_key.some) ELSE <<>>)
                   \o <<Dot>> \o B64(iv)
                   \o <<Dot>> \o B64(ct.ciphertext)
                   \o <<Dot>> \o B64(ct.tag)
    IN [status |-> "ok", calls |-> c4, message |-> message, header |-> h2]

\* JweContext::serialize_compact: the selector returns the given encrypter.
serialize_compact(ces, zips, payload, header, encrypter, cek, iv, eok, fk) ==
    serialize_compact_with_selector(ces, zips, payload, header, Some(encrypter),
                                    cek, iv, eok, fk)

\* ------------------------------------------------------------------ compact deserialization

\* indexies: the positions of '.' in the input
Indexies(input) ==
    LET RECURSIVE From(_)
        From(i) == IF i > Len(input) THEN <<>>
                   ELSE (IF input[i] = Dot THEN <<i>> ELSE <<>>) \o From(i + 1)
    IN From(1)

separator_count_ok_atleast(indexies) == Len(indexies) >= 4

separator_count_ok(indexies) == Len(indexies) = 4

\* The alg and kid checks: None, or the message of the bail!.
check_alg_kid_no_kid(header, decrypter) ==
    IF ~IsSome(algorithm(header)) THEN Some("The JWE alg header claim is required.")
    ELSE IF algorithm(header).some # decrypter.alg
    THEN Some("The JWE alg header claim is not expected")
    ELSE None

check_alg_kid(header, decrypter) ==
    IF ~IsSome(algorithm(header)) THEN Some("The JWE alg header claim is required.")
    ELSE IF algorithm(header).some # decrypter.alg
    THEN Some("The JWE alg header claim is not expected")
    ELSE IF ~IsSome(decrypter.key_id) THEN None
    ELSE IF ~IsSome(key_id(header)) THEN Some("The JWE kid header claim is required.")
    ELSE IF key_id(header).some # decrypter.key_id.some
    THEN Some("The JWE kid header claim is mismatched")
    ELSE None

\* The aad argument of cencryption.decrypt.
decrypt_aad_reserialized(header_bytes, header) == to_vec(claims_set(header))

decrypt_aad(header_bytes, header) == header_bytes

\* The tag argument of cencryption.decrypt.
decrypt_tag_recomputed(c, key, iv, ciphertext, aad, tag) ==
    IF "ct_msg" \in DOMAIN ciphertext
    THEN aead_encrypt(c, key, iv, ciphertext.ct_msg, aad).tag
    ELSE tag

decrypt_tag(c, key, iv, ciphertext, aad, tag) == tag

\* The selector's return for the parsed header.
SelSome(d) == [ret |-> "some", dec |-> d]
SelNone == [ret |-> "none"]
SelErr(kind) == [ret |-> "err", kind |-> kind]

\* JweContext::deserialize_compact_with_selector
deserialize_compact_with_selector(ces, zips, input, sel, fk) ==
    LET indexies == Indexies(input) IN
    IF ~separator_count_ok(indexies)
    THEN Bail(<<>>, "The compact serialization form of JWE must be five parts separated by colon.")
    ELSE
    LET header_b64 == SubSeq(input, 1, indexies[1] - 1)
        encrypted_key_b64 == SubSeq(input, indexies[1] + 1, indexies[2] - 1)
        iv_b64 == SubSeq(input, indexies[2] + 1, indexies[3] - 1)
        ciphertext_b64 == SubSeq(input, indexies[3] + 1, indexies[4] - 1)
        tag_b64 == SubSeq(input, indexies[4] + 1, Len(input))
        hb == B64Decode(header_b64)
        c1 == <<[fn |-> "decode", seg |-> "header"]>>
    IN
    IF IsErr(hb) THEN Bail(c1, "base64")
    ELSE
    LET header_bytes == hb.ok
        parsed == from_slice(header_bytes)
        c2 == Append(c1, Call("from_slice"))
    IN
    IF IsErr(parsed) THEN Bail(c2, "json")
    ELSE
    LET header == from_map(parsed.ok)
        c3 == Append(c2, Call("selector"))
    IN
    IF sel.ret = "err" THEN Failed(c3, sel.kind, "selector")
    ELSE IF sel.ret = "none" THEN Bail(c3, "A decrypter is not found.")
    ELSE
    LET decrypter == sel.dec
        e == content_encryption(header)
    IN
    IF IsPanic(e) THEN Panicked(c3)
    ELSE IF ~IsSome(e) THEN Bail(c3, "A enc header claim is required.")
    ELSE IF ~IsSome(get_content_encryption(ces, e.some))
    THEN Bail(c3, "A content encryption is not registered")
    ELSE
    LET cencryption == get_content_encryption(ces, e.some).some
        z == compression(header)
    IN
    IF IsPanic(z) THEN Panicked(c3)
    ELSE IF IsSome(z) /\ ~IsSome(get_compression(zips, z.some))
    THEN Bail(c3, "A compression algorithm is not registered")
    ELSE
    LET comp == IF IsSome(z) THEN get_compression(zips, z.some) ELSE None
        chk == check_alg_kid(header, decrypter)
    IN
    IF IsSome(chk) THEN Bail(c3, chk.some)
    ELSE
    LET ek == B64Decode(encrypted_key_b64)
        c4 == Append(c3, [fn |-> "decode", seg |-> "encrypted_key"])
    IN
    IF IsErr(ek) THEN Bail(c4, "base64")
    ELSE
    LET key == unwrap(decrypter, header, ek.ok, fk)
        c5 == Append(c4, Call("unwrap"))
    IN
    IF IsErr(key) THEN Failed(c5, key.err, key.what)
    ELSE
    LET iv == B64Decode(iv_b64)
        ciphertext == B64Decode(ciphertext_b64)
        tag == B64Decode(tag_b64)
        c6 == Append(c5, [fn |-> "decode", seg |-> "iv"])
        c7 == Append(c6, [fn |-> "decode", seg |-> "ciphertext"])
        c8 == Append(c7, [fn |-> "decode", seg |-> "tag"])
    IN
    IF IsErr(iv) THEN Bail(c6, "base64")
    ELSE IF IsErr(ciphertext) THEN Bail(c7, "base64")
    ELSE IF IsErr(tag) THEN Bail(c8, "base64")
    ELSE
    LET aad == decrypt_aad(header_bytes, header)
        content == aead_decrypt(cencryption, key.ok, iv.ok, ciphertext.ok, aad,
                                decrypt_tag(cencryption, key.ok, iv.ok, ciphertext.ok, aad, tag.ok),
                                fk)
        c9 == Append(c8, [fn |-> "aead_decrypt", aad |-> aad])
    IN
    IF IsErr(content) THEN Failed(c9, content.err, content.what)
    ELSE IF ~IsSome(comp)
    THEN [status |-> "ok", calls |-> c9, payload |-> content.ok, header |-> header]
    ELSE
    LET plain == decompress(comp.some, content.ok)
        c10 == Append(c9, Call("decompress"))
    IN
    IF IsErr(plain) THEN Bail(c10, "io")
    ELSE [status |-> "ok", calls |-> c10, payload |-> plain.ok, header |-> header]

\* JweContext::deserialize_compact: the selector returns the given decrypter.
deserialize_compact(ces, zips, input, decrypter, fk) ==
    deserialize_compact_with_selector(ces, zips, input, SelSome(decrypter), fk)

\* ------------------------------------------------------------------ flattened JSON

\* One of the two merge loops: every claim of h goes into merged_map unless
\* its name is there already.
merge_claims_overwrite(merged_map, h) ==
    IF ~IsSome(h) THEN Ok(merged_map)
    ELSE LET cs == claims_set(h.some) IN
         Ok([x \in (DOMAIN merged_map) \cup (DOMAIN cs) |->
                IF x \in DOMAIN cs THEN cs[x] ELSE merged_map[x]])

merge_claims(merged_map, h) ==
    IF ~IsSome(h) THEN Ok(merged_map)
    ELSE LET cs == claims_set(h.some) IN
         IF (DOMAIN cs) \cap (DOMAIN merged_map) # {}
         THEN Err(InvalidJweFormat, "Duplicate key exists")
         ELSE Ok([x \in (DOMAIN merged_map) \cup (DOMAIN cs) |->
                     IF x \in DOMAIN cs THEN cs[x] ELSE merged_map[x]])

\* JweContext::serialize_flattened_json_with_selector
serialize_flattened_json_with_selector(ces, zips, payload, protected, unprotected, header, sel, cek, iv, eok, fk) ==
    LET protected0 == IF IsSome(protected) THEN protected.some ELSE JweHeader_new
        m1 == merge_claims(claims_set(protected0), unprotected)
    IN
    IF IsErr(m1) THEN Bail(<<>>, m1.what)
    ELSE
    LET m2 == merge_claims(m1.ok, header) IN
    IF IsErr(m2) THEN Bail(<<>>, m2.what)
    ELSE
    LET merged == from_map(m2.ok)
        c1 == <<Call("selector")>>
    IN
    IF ~IsSome(sel) THEN Bail(c1, "A encrypter is not found.")
    ELSE
    LET encrypter == sel.some
        e == content_encryption(merged)
    IN
    IF IsPanic(e) THEN Panicked(c1)
    ELSE IF ~IsSome(e) THEN Bail(c1, "A enc header claim is required.")
    ELSE IF ~IsSome(get_content_encryption(ces, e.some))
    THEN Bail(c1, "A content encryption is not registered")
    ELSE
    LET cencryption == get_content_encryption(ces, e.some).some
        z == compression(merged)
    IN
    IF IsPanic(z) THEN Panicked(c1)
    ELSE IF IsSome(z) /\ ~IsSome(get_compression(zips, z.some))
    THEN Bail(c1, "A compression algorithm is not registered")
    ELSE
    LET comp == IF IsSome(z) THEN get_compression(zips, z.some) ELSE None
        content == IF IsSome(comp) THEN compress(comp.some, payload) ELSE payload
        c2 == IF IsSome(comp) THEN Append(c1, Call("compress")) ELSE c1
        r == encrypt(encrypter, protected0, cek, eok, fk)
        c3 == Append(c2, Call("encrypt"))
    IN
    IF IsErr(r) THEN Failed(c3, r.err, r.what)
    ELSE
    LET p2 == IF ~IsSome(claim(merged, "kid")) /\ IsSome(encrypter.key_id)
              THEN set_key_id(r.header, encrypter.key_id.some)
              ELSE r.header
        protected_bytes == to_vec(claims_set(p2))
        ct == aead_encrypt(cencryption, r.key, iv, content, protected_bytes)
        c4 == Append(c3, [fn |-> "aead_encrypt", aad |-> protected_bytes])
        json == [protected |-> B64(protected_bytes),
                 unprotected |-> IF IsSome(unprotected)
                                 THEN Some(to_vec(claims_set(unprotected.some))) ELSE None,
                 header |-> IF IsSome(header)
                            THEN Some(to_vec(claims_set(header.some))) ELSE None,
                 encrypted_key |-> IF IsSome(r.encrypted_key)
                                   THEN B64(r.encrypted_key.some) ELSE <<>>,
                 aad |-> B64(protected_bytes),
                 iv |-> B64(iv),
                 ciphertext |-> B64(ct.ciphertext),
                 tag |-> B64(ct.tag)]
    IN [status |-> "ok", calls |-> c4, json |-> json]

\* JweContext::deserialize_json_with_selector: unimplemented!() aborts
\* inside the closure, before map_err.
deserialize_json_with_selector(input, sel) == Panicked(<<>>)

\* JweContext::deserialize_json: a selector around the decrypter, then the above.
deserialize_json(input, decrypter) ==
    deserialize_json_with_selector(input, SelSome(decrypter))

\* ------------------------------------------------------------------ JweHeader, all reserved claims

\* SourceValue::StringArray of the strings of a JSON array.
StringArray(vals) == [StringArray |-> [i \in DOMAIN vals |-> vals[i].str]]

Obj(m) == [obj |-> m]
IsObj(v) == "obj" \in DOMAIN v

\* base64 with URL_SAFE_NO_PAD on the byte strings of the model: the text of
\* one byte, and the bytes of a text (an error for any other text).
B64Table == ("AQ" :> [raw |-> 1]) @@ ("Ag" :> [raw |-> 2])
encode_config(bytes) == CHOOSE s \in DOMAIN B64Table : B64Table[s] = bytes
decode_config(s) == IF s \in DOMAIN B64Table THEN Ok(B64Table[s]) ELSE Err("base64", s)

\* Jwk::from_map of crate::jwk: a JSON object is a key when it names its type.
Jwk_from_map(vals) ==
    IF "kty" \in DOMAIN vals /\ IsStr(vals["kty"]) THEN Ok([jwk |-> vals])
    ELSE Err("InvalidKeyFormat", "kty")

set_jwk_set_url(h, value) ==
    [h EXCEPT !.claims = MapInsert(h.claims, "jku", Str(value))]

jwk_set_url(h) ==
    IF "jku" \notin DOMAIN h.claims THEN None
    ELSE IF IsStr(h.claims["jku"]) THEN Some(h.claims["jku"].str)
    ELSE Panic

set_jwk(h, value) ==
    [claims |-> MapInsert(h.claims, "jwk", Obj(value.jwk)),
     sources |-> MapInsert(h.sources, "jwk", [Jwk |-> value])]

jwk(h) ==
    IF "jwk" \notin DOMAIN h.sources THEN None
    ELSE IF "Jwk" \in DOMAIN h.sources["jwk"] THEN Some(h.sources["jwk"].Jwk)
    ELSE Panic

set_x509_url(h, value) ==
    [h EXCEPT !.claims = MapInsert(h.claims, "x5u", Str(value))]

x509_url(h) ==
    IF "x5u" \notin DOMAIN h.claims THEN None
    ELSE IF IsStr(h.claims["x5u"]) THEN Some(h.claims["x5u"].str)
    ELSE Panic

set_x509_certificate_chain(h, values) ==
    [claims |-> MapInsert(h.claims, "x5c",
                          Arr([i \in DOMAIN values |-> Str(encode_config(values[i]))])),
     sources |-> MapInsert(h.sources, "x5c", [BytesArray |-> values])]

x509_certificate_chain(h) ==
    IF "x5c" \notin DOMAIN h.sources THEN None
    ELSE IF "BytesArray" \in DOMAIN h.sources["x5c"] THEN Some(h.sources["x5c"].BytesArray)
    ELSE Panic

set_x509_certificate_sha1_thumbprint(h, value) ==
    [claims |-> MapInsert(h.claims, "x5t", Str(encode_config(value))),
     sources |-> MapInsert(h.sources, "x5t", [Bytes |-> value])]

x509_certificate_sha1_thumbprint(h) ==
    IF "x5t" \notin DOMAIN h.sources THEN None
    ELSE IF "Bytes" \in DOMAIN h.sources["x5t"] THEN Some(h.sources["x5t"].Bytes)
    ELSE Panic

set_x509_certificate_sha256_thumbprint(h, value) ==
    [claims |-> MapInsert(h.claims, "x5t#S256", Str(encode_config(value))),
     sources |-> MapInsert(h.sources, "x5t#S256", [Bytes |-> value])]

x509_certificate_sha256_thumbprint(h) ==
    IF "x5t#S256" \notin DOMAIN h.sources THEN None
    ELSE IF "Bytes" \in DOMAIN h.sources["x5t#S256"] THEN Some(h.sources["x5t#S256"].Bytes)
    ELSE Panic

set_content_type(h, value) ==
    [h EXCEPT !.claims = MapInsert(h.claims, "cty", Str(value))]

content_type(h) ==
    IF "cty" \in DOMAIN h.claims /\ IsStr(h.claims["cty"])
    THEN Some(h.claims["cty"].str) ELSE None

\* JweHeader::set_claim(key, value): the header after the call and the result
\* of the call; every error of the closure becomes JoseError::InvalidJweFormat.
HDone(h, r) == [header |-> h, result |-> r]

\* The x5c arm of set_claim when the value is an array.
set_claim_x5c_partial(h, key, value) ==
    LET vals == value.some.arr
        good == {j \in DOMAIN vals : IsStr(vals[j]) /\ ~IsErr(decode_config(vals[j].str))}
        n == IF good = DOMAIN vals THEN Len(vals)
             ELSE (CHOOSE j \in DOMAIN vals : j \notin good /\ \A i \in 1..(j - 1) : i \in good) - 1
        written == [claims |-> MapInsert(h.claims, key, value.some),
                    sources |-> MapInsert(h.sources, key,
                        [BytesArray |-> [i \in 1..n |-> decode_config(vals[i].str).ok]])]
    IN IF n = Len(vals) THEN HDone(written, Ok(TRUE))
       ELSE HDone(written, Err(InvalidJweFormat, "An element must be a string"))

set_claim_x5c(h, key, value) ==
    LET vals == value.some.arr IN
    IF \E j \in DOMAIN vals : ~IsStr(vals[j]) \/ IsErr(decode_config(vals[j].str))
    THEN LET j == CHOOSE j \in DOMAIN vals :
                      /\ ~IsStr(vals[j]) \/ IsErr(decode_config(vals[j].str))
                      /\ \A i \in 1..(j - 1) :
                            IsStr(vals[i]) /\ ~IsErr(decode_config(vals[i].str))
         IN HDone(h, Err(InvalidJweFormat,
                         IF IsStr(vals[j]) THEN "base64" ELSE "An element must be a string"))
    ELSE HDone([claims |-> MapInsert(h.claims, key, value.some),
                sources |-> MapInsert(h.sources, key,
                    [BytesArray |-> [i \in DOMAIN vals |-> decode_config(vals[i].str).ok]])],
               Ok(TRUE))

set_claim(h, key, value) ==
    LET insert == [h EXCEPT !.claims = MapInsert(h.claims, key, value.some)]
        insert_both(src) == [claims |-> MapInsert(h.claims, key, value.some),
                             sources |-> MapInsert(h.sources, key, src)]
        remove == [h EXCEPT !.claims = MapRemove(h.claims, key)]
        remove_both == [claims |-> MapRemove(h.claims, key),
                        sources |-> MapRemove(h.sources, key)]
        bail(what) == HDone(h, Err(InvalidJweFormat, what))
    IN IF key \in {"alg", "enc", "zip", "jku", "x5u", "kid", "typ", "cty"} THEN
           IF value = None THEN HDone(remove, Ok(TRUE))
           ELSE IF IsStr(value.some) THEN HDone(insert, Ok(TRUE))
           ELSE bail("must be string")
       ELSE IF key = "jwk" THEN
           IF value = None THEN HDone(remove_both, Ok(TRUE))
           ELSE IF IsObj(value.some) THEN
               IF IsErr(Jwk_from_map(value.some.obj)) THEN bail("Jwk::from_map")
               ELSE HDone(insert_both([Jwk |-> Jwk_from_map(value.some.obj).ok]), Ok(TRUE))
           ELSE bail("must be a string")
       ELSE IF key \in {"x5t", "x5t#S256"} THEN
           IF value = None THEN HDone(remove_both, Ok(TRUE))
           ELSE IF IsStr(value.some) THEN
               IF IsErr(decode_config(value.some.str)) THEN bail("base64")
               ELSE HDone(insert_both([Bytes |-> decode_config(value.some.str).ok]), Ok(TRUE))
           ELSE bail("must be a string")
       ELSE IF key = "x5c" THEN
           IF value = None THEN HDone(remove_both, Ok(TRUE))
           ELSE IF IsArr(value.some) THEN set_claim_x5c(h, key, value)
           ELSE bail("must be a array")
       ELSE IF key = "crit" THEN
           IF value = None THEN HDone(remove_both, Ok(TRUE))
           ELSE IF IsArr(value.some) THEN
               IF \A j \in DOMAIN value.some.arr : IsStr(value.some.arr[j])
               THEN HDone(insert_both(StringArray(value.some.arr)), Ok(TRUE))
               ELSE bail("An element must be a string")
           ELSE bail("must be a array")
       ELSE IF value = None THEN HDone(remove, Ok(TRUE))
            ELSE HDone(insert, Ok(TRUE))

\* ------------------------------------------------------------------ JwtPayload

InvalidJwtFormat == "InvalidJwtFormat"
InvalidClaim == "InvalidClaim"

\* A JSON number above i64::MAX that still fits u64.
BigNum == [bignum |-> "u64::MAX"]

IsNum(v) == "num" \in DOMAIN v \/ "bignum" \in DOMAIN v

\* serde_json::Number::as_u64: none for a negative number.
as_u64(v) == IF "bignum" \in DOMAIN v THEN Some([u64_big |-> TRUE])
             ELSE IF v.num >= 0 THEN Some([u64 |-> v.num]) ELSE None

\* A SystemTime is a count of ticks since UNIX_EPOCH, TicksPerSec to the second.
TicksPerSec == 2

\* Duration::as_secs of value.duration_since(UNIX_EPOCH)
as_secs(t) == t \div TicksPerSec

\* SystemTime::UNIX_EPOCH + Duration::from_secs(val): the addition aborts
\* when the result is beyond what SystemTime represents.
from_secs(val) == IF "u64" \in DOMAIN val THEN [SystemTime |-> val.u64 * TicksPerSec]
                  ELSE Panic

JwtPayload_new == [claims |-> EmptyMap, sources |-> EmptyMap]

\* The loop of JwtPayload::from_map over the entries of claims, in key order.
RECURSIVE JwtPayload_from_map_loop(_, _, _)
JwtPayload_from_map_loop(claims, i, sources) ==
    IF i > Len(KeyOrder) THEN Ok([claims |-> claims, sources |-> sources])
    ELSE LET key == KeyOrder[i]
             value == claims[key]
             next(srcs) == JwtPayload_from_map_loop(claims, i + 1, srcs)
         IN IF key \notin DOMAIN claims THEN next(sources)
            ELSE IF key \in {"iss", "sub", "jti"} THEN
                IF IsStr(value) THEN next(sources)
                ELSE Err(InvalidJwtFormat, "must be a string")
            ELSE IF key = "aud" THEN
                IF IsStr(value) THEN next(sources)
                ELSE IF IsArr(value) THEN
                    IF \A j \in DOMAIN value.arr : IsStr(value.arr[j])
                    THEN next(MapInsert(sources, key, StringArray(value.arr)))
                    ELSE Err(InvalidJwtFormat, "An element must be a string")
                ELSE Err(InvalidJwtFormat, "must be a string or array")
            ELSE IF key \in {"exp", "nbf", "iat"} THEN
                IF IsNum(value) THEN
                    IF IsSome(as_u64(value)) THEN
                        LET val == from_secs(as_u64(value).some)
                        IN IF IsPanic(val) THEN Panic
                           ELSE next(MapInsert(sources, key, val))
                    ELSE Err(InvalidJwtFormat, "must be a positive integer within 64bit")
                ELSE Err(InvalidJwtFormat, "must be a string type")
            ELSE next(sources)

JwtPayload_from_map_unchecked(claims) == Ok([claims |-> claims, sources |-> EmptyMap])

JwtPayload_from_map(claims) == JwtPayload_from_map_loop(claims, 1, EmptyMap)

JwtPayload_set_issuer(p, value) ==
    [p EXCEPT !.claims = MapInsert(p.claims, "iss", Str(value))]

JwtPayload_issuer(p) ==
    IF "iss" \in DOMAIN p.claims /\ IsStr(p.claims["iss"])
    THEN Some(p.claims["iss"].str) ELSE None

JwtPayload_set_subject(p, value) ==
    [p EXCEPT !.claims = MapInsert(p.claims, "sub", Str(value))]

JwtPayload_subject(p) ==
    IF "sub" \in DOMAIN p.claims /\ IsStr(p.claims["sub"])
    THEN Some(p.claims["sub"].str) ELSE None

JwtPayload_set_audience(p, values) ==
    IF Len(values) = 1 THEN
        [claims |-> MapInsert(p.claims, "aud", Str(values[1])),
         sources |-> MapRemove(p.sources, "aud")]
    ELSE IF Len(values) > 1 THEN
        [claims |-> MapInsert(p.claims, "aud", Arr([i \in DOMAIN values |-> Str(values[i])])),
         sources |-> MapInsert(p.sources, "aud", [StringArray |-> values])]
    ELSE p

JwtPayload_audience(p) ==
    IF "aud" \notin DOMAIN p.sources THEN None
    ELSE IF "StringArray" \in DOMAIN p.sources["aud"]
         THEN Some(p.sources["aud"].StringArray)
    ELSE Panic

JwtPayload_set_time(p, key, value) ==
    [claims |-> MapInsert(p.claims, key, Num(as_secs(value))),
     sources |-> MapInsert(p.sources, key, [SystemTime |-> value])]

JwtPayload_time(p, key) ==
    IF key \notin DOMAIN p.sources THEN None
    ELSE IF "SystemTime" \in DOMAIN p.sources[key]
         THEN Some(p.sources[key].SystemTime)
    ELSE Panic

JwtPayload_set_expires_at(p, value) == JwtPayload_set_time(p, "exp", value)
JwtPayload_expires_at(p) == JwtPayload_time(p, "exp")
JwtPayload_set_not_before(p, value) == JwtPayload_set_time(p, "nbf", value)
JwtPayload_not_before(p) == JwtPayload_time(p, "nbf")
JwtPayload_set_issued_at(p, value) == JwtPayload_set_time(p, "iat", value)
JwtPayload_issued_at(p) == JwtPayload_time(p, "iat")

JwtPayload_set_jwt_id(p, value) ==
    [p EXCEPT !.claims = MapInsert(p.claims, "jti", Str(value))]

JwtPayload_jwt_id(p) ==
    IF "jti" \in DOMAIN p.claims /\ IsStr(p.claims["jti"])
    THEN Some(p.claims["jti"].str) ELSE None

\* JwtPayload::set_claim(key, value): the payload after the call and the
\* result of the call.
Done(p, r) == [payload |-> p, result |-> r]

JwtPayload_set_claim(p, key, value) ==
    LET insert == [p EXCEPT !.claims = MapInsert(p.claims, key, value.some)]
        remove == [p EXCEPT !.claims = MapRemove(p.claims, key)]
        remove_both == [claims |-> MapRemove(p.claims, key),
                        sources |-> MapRemove(p.sources, key)]
        bail(what) == Done(p, Err(InvalidJwtFormat, what))
    IN IF key \in {"iss", "sub", "jti"} THEN
           IF value = None THEN Done(remove, Ok(TRUE))
           ELSE IF IsStr(value.some) THEN Done(insert, Ok(TRUE))
           ELSE bail("must be a string")
       ELSE IF key = "aud" THEN
           IF value = None THEN Done(remove_both, Ok(TRUE))
           ELSE IF IsStr(value.some) THEN
               Done([claims |-> MapInsert(p.claims, key, value.some),
                     sources |-> MapRemove(p.sources, key)], Ok(TRUE))
           ELSE IF IsArr(value.some) THEN
               IF \A j \in DOMAIN value.some.arr : IsStr(value.some.arr[j])
               THEN Done([claims |-> MapInsert(p.claims, key, value.some),
                          sources |-> MapInsert(p.sources, key,
                                                StringArray(value.some.arr))], Ok(TRUE))
               ELSE bail("An element must be a string")
           ELSE bail("must be a string or array")
       ELSE IF key \in {"exp", "nbf", "iat"} THEN
           IF value = None THEN Done(remove_both, Ok(TRUE))
           ELSE IF IsNum(value.some) THEN
               IF IsSome(as_u64(value.some)) THEN
                   LET val == from_secs(as_u64(value.some).some)
                   IN IF IsPanic(val) THEN Done(p, Panic)
                      ELSE Done([claims |-> MapInsert(p.claims, key, value.some),
                                 sources |-> MapInsert(p.sources, key, val)], Ok(TRUE))
               ELSE bail("must be a positive integer within 64bit")
           ELSE bail("must be a string")
       ELSE IF value = None THEN Done(remove, Ok(TRUE))
            ELSE Done(insert, Ok(TRUE))

JwtPayload_claim(p, key) == MapGet(p.claims, key)

JwtPayload_claims_set(p) == p.claims

\* ------------------------------------------------------------------ JwtPayloadValidator

JwtPayloadValidator_new ==
    [base_time |-> None, min_issued_time |-> None, max_issued_time |-> None,
     audience |-> None, claims |-> EmptyMap]

JwtPayloadValidator_set_base_time(v, base_time) == [v EXCEPT !.base_time = Some(base_time)]

JwtPayloadValidator_set_min_issued_time(v, t) == [v EXCEPT !.min_issued_time = Some(t)]

JwtPayloadValidator_set_max_issued_time(v, t) == [v EXCEPT !.max_issued_time = Some(t)]

JwtPayloadValidator_set_issuer(v, value) ==
    [v EXCEPT !.claims = MapInsert(v.claims, "iss", Str(value))]

JwtPayloadValidator_set_subject(v, value) ==
    [v EXCEPT !.claims = MapInsert(v.claims, "sub", Str(value))]

JwtPayloadValidator_set_audience(v, value) == [v EXCEPT !.audience = Some(value)]

JwtPayloadValidator_set_jwt_id(v, value) ==
    [v EXCEPT !.claims = MapInsert(v.claims, "jti", Str(value))]

JwtPayloadValidator_set_claim(v, key, value) ==
    [v EXCEPT !.claims = MapInsert(v.claims, key, value)]

Contains(seq, x) == \E i \in DOMAIN seq : seq[i] = x

\* The body of the loop of validate over the validator's claims: what is
\* wrong with the payload's value2 for a claim the validator holds as value1.
check_claim_if_present(value1, value2) ==
    IF IsSome(value2) /\ value1 # value2.some THEN "is invalid" ELSE ""

check_claim(value1, value2) ==
    IF IsSome(value2) THEN (IF value1 # value2.some THEN "is invalid" ELSE "")
    ELSE "is missing"

\* The loop of validate over the validator's claims, in key order.
RECURSIVE validate_claims(_, _, _)
validate_claims(claims, p, i) ==
    IF i > Len(KeyOrder) THEN Ok(TRUE)
    ELSE LET key == KeyOrder[i] IN
         IF key \notin DOMAIN claims THEN validate_claims(claims, p, i + 1)
         ELSE IF check_claim(claims[key], JwtPayload_claim(p, key)) # ""
         THEN Err(InvalidClaim, [what |-> check_claim(claims[key], JwtPayload_claim(p, key)),
                                 key |-> key])
         ELSE validate_claims(claims, p, i + 1)

\* The audience step of validate.
validate_audience(v, p) ==
    IF IsSome(v.audience) /\ IsSome(JwtPayload_audience(p))
    THEN Contains(JwtPayload_audience(p).some, v.audience.some)
    ELSE TRUE

not_yet_valid_at_or_after(not_before, current_time) == not_before >= current_time

not_yet_valid(not_before, current_time) == not_before > current_time

\* JwtPayloadValidator::validate(payload), with now the reading of the wall clock.
validate(v, p, now) ==
    LET current_time == IF IsSome(v.base_time) THEN v.base_time.some ELSE now
        min_issued_time == IF IsSome(v.min_issued_time) THEN v.min_issued_time.some ELSE 0
        max_issued_time == IF IsSome(v.max_issued_time) THEN v.max_issued_time.some ELSE now
        not_before == JwtPayload_not_before(p)
        expires_at == JwtPayload_expires_at(p)
        issued_at == JwtPayload_issued_at(p)
        bail(what) == Err(InvalidClaim, [what |-> what])
    IN IF IsPanic(not_before) THEN Panic
       ELSE IF IsSome(not_before) /\ not_yet_valid(not_before.some, current_time)
       THEN bail("The token is not yet valid")
       ELSE IF IsPanic(expires_at) THEN Panic
       ELSE IF IsSome(expires_at) /\ expires_at.some <= current_time
       THEN bail("The token has expired")
       ELSE IF IsPanic(issued_at) THEN Panic
       ELSE IF IsSome(issued_at) /\ issued_at.some < min_issued_time
       THEN bail("The issued time is too old")
       ELSE IF IsSome(issued_at) /\ issued_at.some > max_issued_time
       THEN bail("The issued time is too new")
       ELSE IF IsSome(v.audience) /\ IsPanic(JwtPayload_audience(p)) THEN Panic
       ELSE IF ~validate_audience(v, p) THEN bail("Key aud is invalid")
       ELSE validate_claims(v.claims, p, 1)

\* ------------------------------------------------------------------ JwsHeader

\* JwsHeader is defined in crate::jws; what follows is its part of the header
\* data model: string claims, crit as an array of strings with a typed cache.
InvalidJwsFormat == "InvalidJwsFormat"

JwsHeader_new == [claims |-> EmptyMap, sources |-> EmptyMap]

JwsHeader_set_token_type(h, value) ==
    [h EXCEPT !.claims = MapInsert(h.claims, "typ", Str(value))]

JwsHeader_set_key_id(h, value) ==
    [h EXCEPT !.claims = MapInsert(h.claims, "kid", Str(value))]

JwsHeader_set_algorithm(h, value) ==
    [h EXCEPT !.claims = MapInsert(h.claims, "alg", Str(value))]

JwsHeader_set_critical(h, values) ==
    [claims |-> MapInsert(h.claims, "crit", Arr([i \in DOMAIN values |-> Str(values[i])])),
     sources |-> MapInsert(h.sources, "crit", [StringArray |-> values])]

JwsHeader_claims_set(h) == h.claims

JwsHeader_from_map(claims) ==
    IF \E k \in DOMAIN claims \cap {"alg", "kid", "typ"} : ~IsStr(claims[k])
    THEN Err(InvalidJwsFormat, "must be a string")
    ELSE IF "crit" \in DOMAIN claims THEN
        IF IsArr(claims["crit"])
           /\ \A j \in DOMAIN claims["crit"].arr : IsStr(claims["crit"].arr[j])
        THEN Ok([claims |-> claims,
                 sources |-> MapInsert(EmptyMap, "crit", StringArray(claims["crit"].arr))])
        ELSE Err(InvalidJwsFormat, "must be an array of strings")
    ELSE Ok([claims |-> claims, sources |-> EmptyMap])

\* ------------------------------------------------------------------ unsecured JWT

\* JwtContext::encode_unsecured
encode_unsecured(p, header) ==
    LET header1 == MapInsert(JwsHeader_claims_set(header), "alg", Str("none"))
        header_bytes == to_vec(header1)
        payload_bytes == to_vec(JwtPayload_claims_set(p))
    IN Ok(B64(header_bytes) \o <<Dot>> \o B64(payload_bytes) \o <<Dot>>)

\* input.split('.')
split(input) ==
    LET ix == Indexies(input)
        from(j) == IF j = 1 THEN 1 ELSE ix[j - 1] + 1
        to(j) == IF j = Len(ix) + 1 THEN Len(input) ELSE ix[j] - 1
    IN [j \in 1..(Len(ix) + 1) |-> SubSeq(input, from(j), to(j))]

parts_ok(parts) == Len(parts) = 3

\* The kid step of decode_unsecured.
kid_ok_unless_malformed(header) == "kid" \notin DOMAIN header \/ IsStr(header["kid"])

kid_ok(header) == "kid" \notin DOMAIN header

\* JwtContext::decode_unsecured: an error of the closure that is no JoseError
\* becomes JoseError::InvalidJwtFormat, a panic goes through.
decode_unsecured(input) ==
    LET parts == split(input)
        bail(what) == Err(InvalidJwtFormat, what)
    IN IF ~parts_ok(parts) THEN bail("must be three parts")
       ELSE IF Len(parts[3]) # 0 THEN bail("must not have a signature part")
       ELSE IF IsErr(B64Decode(parts[1])) THEN bail("base64")
       ELSE IF IsErr(from_slice(B64Decode(parts[1]).ok)) THEN bail("json")
       ELSE LET header == from_slice(B64Decode(parts[1]).ok).ok IN
       IF "alg" \notin DOMAIN header THEN bail("alg header claim is missing")
       ELSE IF ~IsStr(header["alg"]) THEN bail("alg header claim must be a string")
       ELSE IF header["alg"].str # "none" THEN bail("alg header claim is not none")
       ELSE IF ~kid_ok(header) THEN bail("cannot have kid header claim")
       ELSE IF IsErr(JwsHeader_from_map(header)) THEN JwsHeader_from_map(header)
       ELSE IF IsErr(B64Decode(parts[2])) THEN bail("base64")
       ELSE IF IsErr(from_slice(B64Decode(parts[2]).ok)) THEN bail("json")
       ELSE LET p == JwtPayload_from_map(from_slice(B64Decode(parts[2]).ok).ok) IN
       IF IsPanic(p) \/ IsErr(p) THEN p
       ELSE Ok([payload |-> p.ok, header |-> JwsHeader_from_map(header).ok])

\* ------------------------------------------------------------------ HMAC signing

InvalidSignature == "InvalidSignature"
InvalidKeyFormat == "InvalidKeyFormat"

HmacJwsAlgorithms == {"HS256", "HS384", "HS512"}

\* HmacJwsAlgorithm::hash_algorithm and HashAlgorithm::output_len
hash_algorithm(alg) ==
    IF alg = "HS256" THEN "Sha256" ELSE IF alg = "HS384" THEN "Sha384" ELSE "Sha512"
output_len(hash) == IF hash = "Sha256" THEN 32 ELSE IF hash = "Sha384" THEN 48 ELSE 64

\* The block size of the digest, in bytes.
block_size(hash) == IF hash = "Sha256" THEN 64 ELSE 128

\* A secret is `len` bytes that do not end in a zero byte, named by `bytes`,
\* followed by `zeros` zero bytes.
secret_len(secret) == secret.len + secret.zeros

\* The key block HMAC derives from a secret: a secret no longer than the
\* block is filled up with zero bytes to the block size, a longer one is
\* replaced by its digest.
key_block(hash, secret) ==
    IF secret_len(secret) <= block_size(hash)
    THEN [bytes |-> secret.bytes, len |-> secret.len]
    ELSE [digest |-> hash, of |-> secret]

\* The HMAC of openssl's Signer over a digest, a secret and a message: a
\* value that names the digest, the key block and the message, so that two
\* of them agree only when these agree.
Hmac(hash, secret, message) == [mac |-> hash, key |-> key_block(hash, secret), msg |-> message]

\* HmacJwsAlgorithm::to_jwk: the fields of the Jwk it builds.
to_jwk(alg, secret) ==
    [kty |-> "oct", use |-> Some("sig"), key_ops |-> Some({"sign", "verify"}),
     alg |-> Some(alg), k |-> Some([b64str |-> secret]), kid |-> None]

\* Jwk::is_for_key_operation of crate::jwk
is_for_key_operation(key, op) == IF IsSome(key.key_ops) THEN op \in key.key_ops.some ELSE TRUE

\* What signer_from_jwk and verifier_from_jwk read of the Jwk before they
\* build the key: an error message, or the secret.
jwk_secret(alg, key, op) ==
    IF key.kty # "oct" THEN Err(InvalidKeyFormat, "A parameter kty must be oct")
    ELSE IF IsSome(key.use) /\ key.use.some # "sig"
    THEN Err(InvalidKeyFormat, "A parameter use must be sig")
    ELSE IF ~is_for_key_operation(key, op)
    THEN Err(InvalidKeyFormat, "A parameter key_ops must contains " \o op)
    ELSE IF IsSome(key.alg) /\ key.alg.some # alg
    THEN Err(InvalidKeyFormat, "A parameter alg must be " \o alg)
    ELSE IF ~IsSome(key.k) THEN Err(InvalidKeyFormat, "A parameter k is required.")
    ELSE IF "b64str" \notin DOMAIN key.k.some
    THEN Err(InvalidKeyFormat, "A parameter k must be string type")
    ELSE Ok(key.k.some.b64str)

signer_from_slice(alg, input) ==
    Ok([algorithm |-> alg, private_key |-> input, key_id |-> None])

signer_from_jwk(alg, key) ==
    IF IsErr(jwk_secret(alg, key, "sign")) THEN jwk_secret(alg, key, "sign")
    ELSE Ok([algorithm |-> alg, private_key |-> jwk_secret(alg, key, "sign").ok,
             key_id |-> key.kid])

verifier_from_slice(alg, input) ==
    IF secret_len(input) < output_len(hash_algorithm(alg))
    THEN Err(InvalidKeyFormat, "Secret key size must be larger than or equal to the hash output size.")
    ELSE Ok([algorithm |-> alg, private_key |-> input, key_id |-> None])

verifier_from_jwk(alg, key) ==
    IF IsErr(jwk_secret(alg, key, "verify")) THEN jwk_secret(alg, key, "verify")
    ELSE Ok([algorithm |-> alg, private_key |-> jwk_secret(alg, key, "verify").ok,
             key_id |-> key.kid])

\* HmacJwsSigner::sign
sign(s, message) == Ok(Hmac(hash_algorithm(s.algorithm), s.private_key, message))

verify_same_key(v, message, signature) ==
    LET new_signature == Hmac(hash_algorithm(v.algorithm), v.private_key, message)
    IN IF "mac" \in DOMAIN signature /\ new_signature.key = signature.key THEN Ok(TRUE)
       ELSE Err(InvalidSignature, "Failed to verify.")

\* HmacJwsVerifier::verify
verify(v, message, signature) ==
    LET new_signature == Hmac(hash_algorithm(v.algorithm), v.private_key, message)
    IN IF new_signature # signature THEN Err(InvalidSignature, "Failed to verify.")
       ELSE Ok(TRUE)

\* ------------------------------------------------------------------ acceptable critical claims

\* JweContext::new: acceptable_criticals
JweContext_new_acceptable_criticals == {}

is_acceptable_critical(criticals, name) == name \in criticals

add_acceptable_critical(criticals, name) == criticals \cup {name}

remove_acceptable_critical(criticals, name) == criticals \ {name}

\* JwsContext of crate::jws, as far as a JwtContext uses it here: its set of
\* acceptable critical claim names.
JwsContext_new == [acceptable_criticals |-> {}]

JwsContext_is_acceptable_critical(c, name) == name \in c.acceptable_criticals

JwsContext_add_acceptable_critical(c, name) ==
    [c EXCEPT !.acceptable_criticals = @ \cup {name}]

JwsContext_remove_acceptable_critical(c, name) ==
    [c EXCEPT !.acceptable_criticals = @ \ {name}]

\* A JwtContext is its two contexts.
JwtContext_is_acceptable_critical(c, name) ==
    JwsContext_is_acceptable_critical(c.jws_context, name)

JwtContext_add_acceptable_critical_jws_only(c, name) ==
    [c EXCEPT !.jws_context = JwsContext_add_acceptable_critical(@, name)]

JwtContext_add_acceptable_critical(c, name) ==
    [jws_context |-> JwsContext_add_acceptable_critical(c.jws_context, name),
     jwe_context |-> add_acceptable_critical(c.jwe_context, name)]

JwtContext_remove_acceptable_critical(c, name) ==
    [jws_context |-> JwsContext_remove_acceptable_critical(c.jws_context, name),
     jwe_context |-> remove_acceptable_critical(c.jwe_context, name)]

\* ------------------------------------------------------------------ state

NoMsg == [nomsg |-> TRUE]
NoOut == [noout |-> TRUE]
NoRet == [noret |-> TRUE]
Idle == out = NoOut

Init ==
    /\ content_encryptions = JweContext_new_content_encryptions
    /\ compressions = JweContext_new_compressions
    /\ hdr = JweHeader_new
    /\ msg = NoMsg
    /\ out = NoOut
    /\ jwt_payload = JwtPayload_new
    /\ validator = JwtPayloadValidator_new
    /\ ret = NoRet
    /\ signer = None
    /\ verifier = None
    /\ jws = NoRet
    /\ acceptable_criticals = JweContext_new_acceptable_criticals
    /\ jws_context = JwsContext_new
    /\ kp = NoRet

\* ------------------------------------------------------------------ registry actions

AddContentEncryption(c) ==
    /\ Idle
    /\ content_encryptions' = add_content_encryption(content_encryptions, c)
    /\ UNCHANGED <<compressions, hdr, msg, out, jwt_vars, jws_vars, ctx_vars>>

RemoveContentEncryption(n) ==
    /\ Idle
    /\ content_encryptions' = remove_content_encryption(content_encryptions, n)
    /\ UNCHANGED <<compressions, hdr, msg, out, jwt_vars, jws_vars, ctx_vars>>

AddCompression(c) ==
    /\ Idle
    /\ compressions' = add_compression(compressions, c)
    /\ UNCHANGED <<content_encryptions, hdr, msg, out, jwt_vars, jws_vars, ctx_vars>>

RemoveCompression(n) ==
    /\ Idle
    /\ compressions' = remove_compression(compressions, n)
    /\ UNCHANGED <<content_encryptions, hdr, msg, out, jwt_vars, jws_vars, ctx_vars>>


\* ------------------------------------------------------------------ the caller's header

\* The header is built before it is used: while no message was made of it.
Building == Idle /\ msg = NoMsg

SetContentEncryption(v) ==
    /\ Building
    /\ hdr' = set_content_encryption(hdr, v)
    /\ UNCHANGED <<content_encryptions, compressions, msg, out, jwt_vars, jws_vars, ctx_vars>>

SetCompression(v) ==
    /\ Building
    /\ hdr' = set_compression(hdr, v)
    /\ UNCHANGED <<content_encryptions, compressions, msg, out, jwt_vars, jws_vars, ctx_vars>>

SetKeyId(v) ==
    /\ Building
    /\ hdr' = set_key_id(hdr, v)
    /\ UNCHANGED <<content_encryptions, compressions, msg, out, jwt_vars, jws_vars, ctx_vars>>

SetCritical(vs) ==
    /\ Building
    /\ hdr' = set_critical(hdr, vs)
    /\ UNCHANGED <<content_encryptions, compressions, msg, out, jwt_vars, jws_vars, ctx_vars>>

\* JweHeader::from_map on a claim map of the caller's.
CallerMaps ==
    { ("enc" :> Str("A128GCM")) @@ ("typ" :> Num(1)),
      ("enc" :> Str("A128GCM")) @@ ("kid" :> Num(1)),
      ("enc" :> Num(1)) }

FromMap(m) ==
    /\ Building
    /\ hdr = JweHeader_new
    /\ hdr' = from_map(m)
    /\ UNCHANGED <<content_encryptions, compressions, msg, out, jwt_vars, jws_vars, ctx_vars>>

\* The caller drops the header and the message and starts over.
NewHeader ==
    /\ Idle
    /\ msg # NoMsg
    /\ hdr' = JweHeader_new
    /\ msg' = NoMsg
    /\ UNCHANGED <<content_encryptions, compressions, out, jwt_vars, jws_vars, ctx_vars>>

\* ------------------------------------------------------------------ calls

\* The caller takes the result of the call.
Return ==
    /\ ~Idle
    /\ out.res.status \notin {"panic", "noreturn"}
    /\ out' = NoOut
    /\ UNCHANGED <<content_encryptions, compressions, hdr, msg, jwt_vars, jws_vars, ctx_vars>>

SelectorsEnc == {None} \cup {Some(e) : e \in Encrypters}

SerializeCompact(payload, sel, cek, iv, eok, fk) ==
    /\ Building
    /\ LET res == serialize_compact_with_selector(content_encryptions, compressions,
                                                  payload, hdr, sel, cek, iv, eok, fk)
       IN /\ out' = [op |-> "serialize_compact", payload |-> payload, header |-> hdr,
                     sel |-> sel, res |-> res]
          /\ msg' = IF res.status = "ok"
                    THEN [message |-> res.message, payload |-> payload,
                          encrypter |-> sel.some]
                    ELSE msg
    /\ UNCHANGED <<content_encryptions, compressions, hdr, jwt_vars, jws_vars, ctx_vars>>

\* Header texts of a peer: claims in another order than the serializer's, and
\* reserved claims of the wrong JSON type.
P(k, v) == [k |-> k, v |-> v]
PeerHeaders ==
    { [json |-> <<P("enc", Str("A128GCM")), P("alg", Str("dir"))>>],
      [json |-> <<P("alg", Str("dir")), P("enc", Num(1))>>],
      [json |-> <<P("alg", Str("dir")), P("enc", Str("A128GCM")), P("typ", Num(1))>>],
      [json |-> <<P("alg", Str("dir")), P("enc", Str("A128GCM")), P("kid", Num(1))>>],
      [json |-> <<P("alg", Num(1)), P("enc", Str("A128GCM"))>>],
      [json |-> <<P("alg", Str("dir")), P("enc", Str("A128GCM")), P("zip", Num(1))>>],
      [json |-> <<P("enc", Str("A128GCM"))>>],
      [raw |-> 1] }

\* A compact JWE made by a peer that holds key 1 and uses the direct algorithm
\* with the registered A128GCM.
PeerToken(hb) ==
    LET ct == aead_encrypt(Cap("A128GCM", "builtin"), [k |-> 1], [iv |-> 1],
                           [raw |-> 1], hb)
    IN B64(hb) \o <<Dot, Dot>> \o B64([iv |-> 1]) \o <<Dot>> \o B64(ct.ciphertext)
       \o <<Dot>> \o B64(ct.tag)

\* The last message as received: intact, or with another tag.
Received(m) ==
    LET ix == Indexies(m) IN
    {m, SubSeq(m, 1, ix[4]) \o B64([raw |-> 1])}

\* Texts that are no compact JWE.
Malformed ==
    { <<>>, <<Dot, Dot, Dot>>, <<Dot, Dot, Dot, Dot, Dot>>,
      <<[lit |-> "%"], Dot, Dot, Dot, Dot>> }

\* What the caller deserializes: the message it made, as received; or, while
\* it holds no header and no message of its own, what peers send.  (The call
\* reads neither hdr nor msg.)
Inputs ==
    IF msg # NoMsg THEN Received(msg.message)
    ELSE IF hdr = JweHeader_new THEN {PeerToken(hb) : hb \in PeerHeaders} \cup Malformed
    ELSE {}

SelectorsDec ==
    {SelNone} \cup {SelErr(k) : k \in JoseErrorKinds} \cup {SelSome(d) : d \in Decrypters}

DeserializeCompact(input, sel, fk) ==
    /\ Idle
    /\ out' = [op |-> "deserialize_compact", input |-> input, sel |-> sel,
               res |-> deserialize_compact_with_selector(content_encryptions, compressions,
                                                         input, sel, fk)]
    /\ UNCHANGED <<content_encryptions, compressions, hdr, msg, jwt_vars, jws_vars, ctx_vars>>

\* The header sets a caller passes to the flattened form.
FlatHeaders ==
    {None, Some(set_content_encryption(JweHeader_new, "A128GCM")),
     Some(set_key_id(JweHeader_new, "kid-0"))}

Receiving == Idle /\ msg = NoMsg /\ hdr = JweHeader_new

SerializeFlattenedJson(payload, protected, unprotected, header, sel, cek, iv, eok, fk) ==
    /\ Receiving
    /\ out' = [op |-> "serialize_flattened_json", payload |-> payload,
               protected |-> protected, unprotected |-> unprotected, header |-> header,
               sel |-> sel,
               res |-> serialize_flattened_json_with_selector(
                           content_encryptions, compressions, payload, protected,
                           unprotected, header, sel, cek, iv, eok, fk)]
    /\ UNCHANGED <<content_encryptions, compressions, hdr, msg, jwt_vars, jws_vars, ctx_vars>>

DeserializeJson(input, sel) ==
    /\ Receiving
    /\ out' = [op |-> "deserialize_json", input |-> input, sel |-> sel,
               res |-> deserialize_json_with_selector(input, sel)]
    /\ UNCHANGED <<content_encryptions, compressions, hdr, msg, jwt_vars, jws_vars, ctx_vars>>

Next ==
    \/ \E c \in AddableEncs : AddContentEncryption(c)
    \/ \E n \in RemovableEncNames : RemoveContentEncryption(n)
    \/ \E c \in AddableZips : AddCompression(c)
    \/ \E n \in RemovableZipNames : RemoveCompression(n)
    \/ \E v \in {"A128GCM", "A256GCM"} : SetContentEncryption(v)
    \/ SetCompression("DEF")
    \/ SetKeyId("kid-0")
    \/ SetCritical(<<"exp">>)
    \/ \E m \in CallerMaps : FromMap(m)
    \/ NewHeader
    \/ Return
    \/ \E p \in Payloads, sel \in SelectorsEnc, cek \in Keys, iv \in Ivs,
          eok \in BOOLEAN, fk \in JoseErrorKinds :
          SerializeCompact(p, sel, cek, iv, eok, fk)
    \/ \E input \in Inputs, sel \in SelectorsDec, fk \in JoseErrorKinds :
          DeserializeCompact(input, sel, fk)
    \/ \E p \in Payloads, pr \in FlatHeaders, un \in FlatHeaders, he \in FlatHeaders,
          sel \in SelectorsEnc, cek \in Keys, iv \in Ivs, eok \in BOOLEAN,
          fk \in JoseErrorKinds :
          SerializeFlattenedJson(p, pr, un, he, sel, cek, iv, eok, fk)
    \/ \E input \in Malformed, sel \in {SelNone, SelSome(DirEncrypter(1, None))} :
          DeserializeJson(input, sel)

Spec == Init /\ [][Next]_vars

\* ------------------------------------------------------------------ the JWT layer

\* Bounds of the JWT-layer state: the ticks a time ranges over, the claims a
\* payload holds and the checks a validator is configured with.
MaxTime == 2
MaxClaims == 2
MaxChecks == 2

Times == 0..MaxTime
AudLists == {<<>>, <<"a">>, <<"b">>, <<"a", "b">>}

\* The caller builds its payload and its validator, then makes one call;
\* a call that aborted makes no further call.
Alive ==
    IF ret = NoRet THEN TRUE
    ELSE /\ ~IsPanic(ret.res)
         /\ ret.op \notin {"validate", "encode_unsecured", "decode_unsecured"}

Room(p, key) ==
    IF key \in DOMAIN p.claims THEN TRUE ELSE Cardinality(DOMAIN p.claims) < MaxClaims

Checks(v) ==
    Cardinality({f \in {"base_time", "min_issued_time", "max_issued_time", "audience"} :
                    IsSome(v[f])})
    + Cardinality(DOMAIN v.claims)

JwtUnchanged == UNCHANGED <<jwe_vars, jws_vars, ctx_vars>>

\* The caller builds the payload first and configures the validator after it.
Unconfigured == validator = JwtPayloadValidator_new

\* A typed setter of JwtPayload.
PayloadSet(op, key, value, p) ==
    /\ Alive
    /\ Unconfigured
    /\ Room(jwt_payload, key)
    /\ jwt_payload' = p
    /\ ret' = [op |-> op, value |-> value, res |-> Ok(TRUE)]
    /\ UNCHANGED validator
    /\ JwtUnchanged

PayloadSetIssuer(s) == PayloadSet("set_issuer", "iss", s, JwtPayload_set_issuer(jwt_payload, s))
PayloadSetSubject(s) == PayloadSet("set_subject", "sub", s, JwtPayload_set_subject(jwt_payload, s))
PayloadSetJwtId(s) == PayloadSet("set_jwt_id", "jti", s, JwtPayload_set_jwt_id(jwt_payload, s))
PayloadSetAudience(vs) ==
    PayloadSet("set_audience", "aud", vs, JwtPayload_set_audience(jwt_payload, vs))
PayloadSetExpiresAt(t) ==
    PayloadSet("set_expires_at", "exp", t, JwtPayload_set_expires_at(jwt_payload, t))
PayloadSetNotBefore(t) ==
    PayloadSet("set_not_before", "nbf", t, JwtPayload_set_not_before(jwt_payload, t))
PayloadSetIssuedAt(t) ==
    PayloadSet("set_issued_at", "iat", t, JwtPayload_set_issued_at(jwt_payload, t))

\* The JSON values a caller or a peer puts under a claim name.
WireVals == {Str("a"), Num(1), Num(-1), BigNum,
             Arr(<<Str("a"), Str("b")>>), Arr(<<Str("a"), Num(1)>>)}
WireKeys == {"iss", "aud", "exp", "role"}
WireMaps == {m \in UNION {[K -> WireVals] : K \in SUBSET WireKeys} :
                Cardinality(DOMAIN m) <= MaxClaims}

\* The calls of JwtPayload::set_claim a caller makes.
SetClaimCalls ==
    {<<"iss", Some(Str("a"))>>, <<"iss", Some(Num(1))>>, <<"iss", None>>,
     <<"aud", Some(Str("a"))>>, <<"aud", Some(Arr(<<Str("a"), Str("b")>>))>>,
     <<"aud", Some(Arr(<<Str("a"), Num(1)>>))>>, <<"aud", Some(Num(1))>>, <<"aud", None>>,
     <<"exp", Some(Num(1))>>, <<"exp", Some(Num(-1))>>, <<"exp", Some(BigNum)>>,
     <<"exp", Some(Str("a"))>>, <<"exp", None>>,
     <<"role", Some(Str("a"))>>, <<"role", Some(Num(1))>>, <<"role", None>>}

PayloadSetClaim(key, value) ==
    /\ Alive
    /\ Unconfigured
    /\ Room(jwt_payload, key)
    /\ LET done == JwtPayload_set_claim(jwt_payload, key, value)
       IN /\ jwt_payload' = done.payload
          /\ ret' = [op |-> "set_claim", key |-> key, value |-> value,
                     res |-> done.result]
    /\ UNCHANGED validator
    /\ JwtUnchanged

PayloadFromMap(m) ==
    /\ Alive
    /\ Unconfigured
    /\ jwt_payload = JwtPayload_new
    /\ LET res == JwtPayload_from_map(m)
       IN /\ jwt_payload' = IF IsPanic(res) \/ IsErr(res) THEN jwt_payload ELSE res.ok
          /\ ret' = [op |-> "from_map", claims |-> m, res |-> res]
    /\ UNCHANGED validator
    /\ JwtUnchanged

\* A setter of JwtPayloadValidator.
ValidatorSet(op, v) ==
    /\ Alive
    /\ Checks(v) <= MaxChecks
    /\ validator' = v
    /\ ret' = [op |-> op, res |-> Ok(TRUE)]
    /\ UNCHANGED jwt_payload
    /\ JwtUnchanged

ValidatorSetBaseTime(t) ==
    ValidatorSet("validator.set_base_time", JwtPayloadValidator_set_base_time(validator, t))
ValidatorSetMinIssuedTime(t) ==
    ValidatorSet("validator.set_min_issued_time",
                 JwtPayloadValidator_set_min_issued_time(validator, t))
ValidatorSetMaxIssuedTime(t) ==
    ValidatorSet("validator.set_max_issued_time",
                 JwtPayloadValidator_set_max_issued_time(validator, t))
ValidatorSetIssuer(s) ==
    ValidatorSet("validator.set_issuer", JwtPayloadValidator_set_issuer(validator, s))
ValidatorSetSubject(s) ==
    ValidatorSet("validator.set_subject", JwtPayloadValidator_set_subject(validator, s))
ValidatorSetAudience(s) ==
    ValidatorSet("validator.set_audience", JwtPayloadValidator_set_audience(validator, s))
ValidatorSetJwtId(s) ==
    ValidatorSet("validator.set_jwt_id", JwtPayloadValidator_set_jwt_id(validator, s))
ValidatorSetClaim(key, value) ==
    ValidatorSet("validator.set_claim", JwtPayloadValidator_set_claim(validator, key, value))

\* validate(&payload) with the wall clock reading now.
Validate(now) ==
    /\ Alive
    /\ ret' = [op |-> "validate", now |-> now,
               res |-> validate(validator, jwt_payload, now)]
    /\ UNCHANGED <<jwt_payload, validator>>
    /\ JwtUnchanged

JwsHeaders ==
    {JwsHeader_new,
     JwsHeader_set_token_type(JwsHeader_new, "JWT"),
     JwsHeader_set_key_id(JwsHeader_new, "kid-0"),
     JwsHeader_set_algorithm(JwsHeader_new, "HS256"),
     JwsHeader_set_critical(JwsHeader_new, <<"exp">>)}

EncodeUnsecured(header) ==
    /\ Alive
    /\ Unconfigured
    /\ ret' = [op |-> "encode_unsecured", payload |-> jwt_payload, header |-> header,
               res |-> encode_unsecured(jwt_payload, header)]
    /\ UNCHANGED <<jwt_payload, validator>>
    /\ JwtUnchanged

\* The caller decodes the token it has just encoded.
DecodeEncoded ==
    /\ ret # NoRet
    /\ ret.op = "encode_unsecured"
    /\ ret' = [op |-> "decode_unsecured", input |-> ret.res.ok,
               sent |-> Some([payload |-> ret.payload, header |-> ret.header]),
               res |-> decode_unsecured(ret.res.ok)]
    /\ UNCHANGED <<jwt_payload, validator>>
    /\ JwtUnchanged

\* Tokens of a peer: header claims, payload claims, and the text after them.
PeerJwtHeaders ==
    {EmptyMap,
     "alg" :> Str("none"),
     "alg" :> Str("HS256"),
     "alg" :> Num(1),
     ("alg" :> Str("none")) @@ ("kid" :> Str("kid-0")),
     ("alg" :> Str("none")) @@ ("kid" :> Num(1)),
     ("alg" :> Str("none")) @@ ("typ" :> Num(1)),
     ("alg" :> Str("none")) @@ ("typ" :> Str("JWT"))}
PeerJwtPayloads == {EmptyMap, "iss" :> Str("a"), "iss" :> Num(1), "exp" :> BigNum}
PeerJwtTails == {<<>>, <<Dot>>, <<Dot, [b64 |-> [raw |-> 1]]>>, <<Dot, Dot>>}
PeerJwts ==
    {B64(to_vec(h)) \o <<Dot>> \o B64(to_vec(p)) \o tail :
        h \in PeerJwtHeaders, p \in PeerJwtPayloads, tail \in PeerJwtTails}
    \cup {<<[lit |-> "!"], Dot, Dot>>, <<[b64 |-> [raw |-> 1]], Dot, Dot>>}

DecodeUnsecured(input) ==
    /\ Alive
    /\ Unconfigured
    /\ jwt_payload = JwtPayload_new
    /\ ret' = [op |-> "decode_unsecured", input |-> input, sent |-> None,
               res |-> decode_unsecured(input)]
    /\ UNCHANGED <<jwt_payload, validator>>
    /\ JwtUnchanged

JwtNext ==
    \/ PayloadSetIssuer("a")
    \/ PayloadSetSubject("a")
    \/ PayloadSetJwtId("a")
    \/ \E vs \in AudLists : PayloadSetAudience(vs)
    \/ \E t \in Times : PayloadSetExpiresAt(t)
    \/ \E t \in Times : PayloadSetNotBefore(t)
    \/ \E t \in Times : PayloadSetIssuedAt(t)
    \/ \E c \in SetClaimCalls : PayloadSetClaim(c[1], c[2])
    \/ \E m \in WireMaps : PayloadFromMap(m)
    \/ \E t \in Times : ValidatorSetBaseTime(t)
    \/ ValidatorSetMinIssuedTime(1)
    \/ ValidatorSetMaxIssuedTime(1)
    \/ ValidatorSetIssuer("a")
    \/ ValidatorSetSubject("a")
    \/ ValidatorSetAudience("a")
    \/ ValidatorSetJwtId("a")
    \/ \E v \in {Str("a"), Num(1)} : ValidatorSetClaim("role", v)
    \/ \E now \in Times : Validate(now)
    \/ \E h \in JwsHeaders : EncodeUnsecured(h)
    \/ DecodeEncoded
    \/ \E input \in PeerJwts : DecodeUnsecured(input)

SpecJwt == Init /\ [][JwtNext]_vars

\* ------------------------------------------------------------------ the header on its own

\* The number of claims a header under construction holds.
MaxHeaderClaims == 2

HeaderRoom(h) == Cardinality(DOMAIN h.claims) <= MaxHeaderClaims

Called(op, value, before) ==
    [op |-> op, value |-> value, before |-> before, res |-> [status |-> "ok", calls |-> <<>>]]

\* A typed setter of JweHeader.
HeaderSet(op, value, h) ==
    /\ HeaderRoom(h)
    /\ hdr' = h
    /\ out' = Called(op, value, hdr)
    /\ UNCHANGED <<content_encryptions, compressions, msg, jwt_vars, jws_vars, ctx_vars>>

Jwks == {[jwk |-> ("kty" :> Str("oct"))]}
Blobs == {[raw |-> 1], [raw |-> 2]}

HeaderSetAlgorithm(v) == HeaderSet("set_algorithm", v, set_algorithm(hdr, v))
HeaderSetContentEncryption(v) ==
    HeaderSet("set_content_encryption", v, set_content_encryption(hdr, v))
HeaderSetCompression(v) == HeaderSet("set_compression", v, set_compression(hdr, v))
HeaderSetJwkSetUrl(v) == HeaderSet("set_jwk_set_url", v, set_jwk_set_url(hdr, v))
HeaderSetJwk(v) == HeaderSet("set_jwk", v, set_jwk(hdr, v))
HeaderSetX509Url(v) == HeaderSet("set_x509_url", v, set_x509_url(hdr, v))
HeaderSetX509CertificateChain(vs) ==
    HeaderSet("set_x509_certificate_chain", vs, set_x509_certificate_chain(hdr, vs))
HeaderSetX509CertificateSha1Thumbprint(v) ==
    HeaderSet("set_x509_certificate_sha1_thumbprint", v,
              set_x509_certificate_sha1_thumbprint(hdr, v))
HeaderSetX509CertificateSha256Thumbprint(v) ==
    HeaderSet("set_x509_certificate_sha256_thumbprint", v,
              set_x509_certificate_sha256_thumbprint(hdr, v))
HeaderSetKeyId(v) == HeaderSet("set_key_id", v, set_key_id(hdr, v))
HeaderSetTokenType(v) == HeaderSet("set_token_type", v, set_token_type(hdr, v))
HeaderSetContentType(v) == HeaderSet("set_content_type", v, set_content_type(hdr, v))
HeaderSetCritical(vs) == HeaderSet("set_critical", vs, set_critical(hdr, vs))

\* The calls of JweHeader::set_claim a caller makes.
HeaderClaimCalls ==
    {<<k, Some(Num(1))>> : k \in {"alg", "enc", "zip", "jku", "x5u", "kid", "typ", "cty"}}
    \cup
    {<<"alg", Some(Str("dir"))>>, <<"alg", None>>, <<"kid", Some(Str("kid-0"))>>,
     <<"jwk", Some(Obj("kty" :> Str("oct")))>>, <<"jwk", Some(Obj(EmptyMap))>>,
     <<"jwk", Some(Str("a"))>>, <<"jwk", None>>,
     <<"x5t", Some(Str("AQ"))>>, <<"x5t", Some(Str("!"))>>, <<"x5t", Some(Num(1))>>,
     <<"x5t", None>>,
     <<"x5t#S256", Some(Str("Ag"))>>, <<"x5t#S256", Some(Str("!"))>>,
     <<"x5t#S256", Some(Num(1))>>,
     <<"x5c", Some(Arr(<<Str("Ag")>>))>>, <<"x5c", Some(Arr(<<Str("AQ"), Str("!")>>))>>,
     <<"x5c", Some(Arr(<<Str("AQ"), Num(1)>>))>>, <<"x5c", Some(Str("AQ"))>>, <<"x5c", None>>,
     <<"crit", Some(Arr(<<Str("exp")>>))>>, <<"crit", Some(Arr(<<Str("exp"), Num(1)>>))>>,
     <<"crit", Some(Str("exp"))>>, <<"crit", None>>,
     <<"role", Some(Num(1))>>}

HeaderSetClaim(key, value) ==
    LET done == set_claim(hdr, key, value) IN
    /\ HeaderRoom(done.header)
    /\ hdr' = done.header
    /\ out' = [op |-> "set_claim", key |-> key, value |-> value, before |-> hdr,
               res |-> IF IsErr(done.result)
                       THEN Failed(<<>>, done.result.err, done.result.what)
                       ELSE [status |-> "ok", calls |-> <<>>]]
    /\ UNCHANGED <<content_encryptions, compressions, msg, jwt_vars, jws_vars, ctx_vars>>

\* The claim maps a header is parsed from.
HeaderMaps ==
    {"crit" :> Arr(<<Str("exp")>>), "x5t" :> Str("AQ"), "alg" :> Str("dir")}

HeaderFromMap(m) ==
    /\ hdr' = from_map(m)
    /\ out' = Called("from_map", m, hdr)
    /\ UNCHANGED <<content_encryptions, compressions, msg, jwt_vars, jws_vars, ctx_vars>>

HeaderNext ==
    \/ HeaderSetAlgorithm("dir")
    \/ HeaderSetContentEncryption("A128GCM")
    \/ HeaderSetCompression("DEF")
    \/ HeaderSetJwkSetUrl("u")
    \/ \E v \in Jwks : HeaderSetJwk(v)
    \/ HeaderSetX509Url("u")
    \/ \E vs \in {<<[raw |-> 1]>>, <<[raw |-> 1], [raw |-> 2]>>} :
          HeaderSetX509CertificateChain(vs)
    \/ \E v \in Blobs : HeaderSetX509CertificateSha1Thumbprint(v)
    \/ \E v \in Blobs : HeaderSetX509CertificateSha256Thumbprint(v)
    \/ HeaderSetKeyId("kid-0")
    \/ HeaderSetTokenType("JWT")
    \/ HeaderSetContentType("JWT")
    \/ \E vs \in {<<"exp">>, <<"exp", "b64">>} : HeaderSetCritical(vs)
    \/ \E c \in HeaderClaimCalls : HeaderSetClaim(c[1], c[2])
    \/ \E m \in HeaderMaps : HeaderFromMap(m)

SpecHeader == Init /\ [][HeaderNext]_vars

\* ------------------------------------------------------------------ observations

OutIs(op) == out # NoOut /\ out.op = op
Status(s) == out.res.status = s
ErrWhat == IF out.res.status = "err" THEN out.res.what ELSE ""
Invoked(f) == \E i \in DOMAIN out.res.calls : out.res.calls[i].fn = f

\* The text before the first '.', and the claims it carries when it decodes
\* and parses.
HeaderSegment(input) ==
    LET ix == Indexies(input) IN
    IF Len(ix) = 0 THEN input ELSE SubSeq(input, 1, ix[1] - 1)
HeaderParses(input) ==
    /\ ~IsErr(B64Decode(HeaderSegment(input)))
    /\ ~IsErr(from_slice(B64Decode(HeaderSegment(input)).ok))
ParsedClaims(input) == from_slice(B64Decode(HeaderSegment(input)).ok).ok

\* The reserved-claim type contract, for the claims of the model.
StringClaims == {"alg", "enc", "zip", "jku", "x5u", "kid", "typ", "cty"}
WellTyped(k, v) ==
    IF k \in StringClaims THEN IsStr(v)
    ELSE IF k = "crit" THEN IsArr(v) /\ \A i \in DOMAIN v.arr : IsStr(v.arr[i])
    ELSE TRUE
WrongTyped(claims) == \E k \in DOMAIN claims : ~WellTyped(k, claims[k])

\* The header a round trip is to return: the input header, the alg stamped
\* by the encrypter, and the encrypter's kid if the header had none.
ExpectedHeader(h, e) ==
    LET h1 == set_algorithm(h, e.alg) IN
    IF ~IsSome(claim(h, "kid")) /\ IsSome(e.key_id)
    THEN set_key_id(h1, e.key_id.some) ELSE h1

\* A decrypter for what encrypter e made of header h.
Matching(d, e, h) ==
    /\ d.alg = e.alg
    /\ d.key = e.key
    /\ (IsSome(d.key_id) => key_id(ExpectedHeader(h, e)) = d.key_id)

\* The context is the one the message was made in: it would make this very
\* message of the same arguments.
SameContext ==
    \E cek \in Keys, iv \in Ivs :
        LET r == serialize_compact(content_encryptions, compressions, msg.payload, hdr,
                                   msg.encrypter, cek, iv, TRUE, InvalidJweFormat)
        IN r.status = "ok" /\ r.message = msg.message

\* A deserialize_compact of the intact message with a matching decrypter.
RoundTrip ==
    /\ OutIs("deserialize_compact")
    /\ msg # NoMsg
    /\ out.input = msg.message
    /\ out.sel.ret = "some"
    /\ Matching(out.sel.dec, msg.encrypter, hdr)
    /\ SameContext

\* ------------------------------------------------------------------ claims

\* C1: a compact round trip with a matching decrypter succeeds and returns
\* the payload and a header equal, by JweHeader equality, to the input header
\* plus the encrypter's alg and default-filled kid.
C1_RoundTrip ==
    RoundTrip =>
        /\ Status("ok")
        /\ out.res.payload = msg.payload
        /\ out.res.header = ExpectedHeader(hdr, msg.encrypter)

\* C2: serialize_compact returns a text with exactly 4 '.', and
\* deserialize_compact rejects a text with another number of '.' before it
\* decodes a segment or calls the selector.
C2_FourSeparators ==
    /\ (OutIs("serialize_compact") /\ Status("ok")
            => Len(Indexies(out.res.message)) = 4)
    /\ (OutIs("deserialize_compact") /\ Len(Indexies(out.input)) # 4
            => Status("err") /\ out.res.calls = <<>>)

C2_Witness ==
    /\ OutIs("deserialize_compact")
    /\ Len(Indexies(out.input)) = 5
    /\ Status("err")

\* C3: every error of deserialize_compact_with_selector has the kind
\* InvalidJweFormat.
C3_SingleErrorKind ==
    OutIs("deserialize_compact") /\ Status("err") => out.res.kind = InvalidJweFormat

\* C4: deserialize_compact never panics.
C4_NoPanic ==
    OutIs("deserialize_compact") => ~Status("panic")

\* C5: an input whose header carries a reserved claim of the wrong JSON type
\* is never deserialized to Ok.
C5_TypeContract ==
    /\ OutIs("deserialize_compact")
    /\ Len(Indexies(out.input)) = 4
    /\ HeaderParses(out.input)
    /\ WrongTyped(ParsedClaims(out.input))
    => ~Status("ok")

\* C6: the decrypter's unwrap is invoked only if the header alg is the
\* decrypter's algorithm and, when the decrypter has a key id, the header kid
\* is that key id; a decrypter without key id is never refused for the kid.
C6_ChecksBeforeUnwrap ==
    OutIs("deserialize_compact") =>
        /\ Invoked("unwrap") =>
              /\ out.sel.ret = "some"
              /\ algorithm(from_map(ParsedClaims(out.input))) = Some(out.sel.dec.alg)
              /\ IsSome(out.sel.dec.key_id) =>
                    key_id(from_map(ParsedClaims(out.input))) = out.sel.dec.key_id
        /\ out.sel.ret = "some" /\ ~IsSome(out.sel.dec.key_id) =>
              ErrWhat \notin {"The JWE kid header claim is required.",
                              "The JWE kid header claim is mismatched"}

C6_Witness ==
    /\ OutIs("deserialize_compact")
    /\ Invoked("unwrap")
    /\ IsSome(out.sel.dec.key_id)

\* C7: the AAD of the content cipher is the transmitted header text: on
\* serialize the bytes encoded as the first segment, which serialize the final
\* header; on deserialize the decoding of the received first segment.
C7_AadIsTransmittedHeader ==
    /\ OutIs("serialize_compact") /\ Status("ok") =>
          \A i \in DOMAIN out.res.calls :
              out.res.calls[i].fn = "aead_encrypt" =>
                  /\ B64Decode(HeaderSegment(out.res.message)) = Ok(out.res.calls[i].aad)
                  /\ out.res.calls[i].aad = to_vec(claims_set(out.res.header))
    /\ OutIs("deserialize_compact") =>
          \A i \in DOMAIN out.res.calls :
              out.res.calls[i].fn = "aead_decrypt" =>
                  B64Decode(HeaderSegment(out.input)) = Ok(out.res.calls[i].aad)

\* A token is decrypted whose header text is not what the parsed header
\* serializes to.
C7_Witness ==
    /\ OutIs("deserialize_compact")
    /\ Status("ok")
    /\ B64Decode(HeaderSegment(out.input)).ok # to_vec(claims_set(out.res.header))

\* C8: serialize_flattened_json fails with the duplicate-key error, before the
\* selector or the encrypter is invoked, exactly when two of the protected,
\* unprotected and per-recipient header sets share a claim name.
Names(h) == IF IsSome(h) THEN DOMAIN claims_set(h.some) ELSE {}
Overlap(a, b) == Names(a) \cap Names(b) # {}
C8_DuplicateKey ==
    OutIs("serialize_flattened_json") =>
        LET dup == \/ Overlap(out.protected, out.unprotected)
                   \/ Overlap(out.protected, out.header)
                   \/ Overlap(out.unprotected, out.header)
        IN /\ dup <=> ErrWhat = "Duplicate key exists"
           /\ dup => out.res.kind = InvalidJweFormat /\ out.res.calls = <<>>

C8_Witness ==
    /\ OutIs("serialize_flattened_json")
    /\ ~Overlap(out.protected, out.unprotected)
    /\ ~Overlap(out.protected, out.header)
    /\ Overlap(out.unprotected, out.header)
    /\ ErrWhat = "Duplicate key exists"

\* C9: deserialize_json returns an InvalidJweFormat error for every input.
C9_JsonFailsCleanly ==
    OutIs("deserialize_json") => Status("err") /\ out.res.kind = InvalidJweFormat

\* C10: a context starts with the built-in capabilities; add(c) makes
\* get(c.name) return c and remove(n) makes get(n) return none, either leaving
\* every other name as it was; and a compact call whose header names enc = n
\* fails as not registered exactly when n is absent.
EncNames == BuiltinEncNames \cup {c.name : c \in AddableEncs}
ZipNames == BuiltinZipNames \cup {c.name : c \in AddableZips}
C10_EncNotRegistered(header) ==
    IsSome(content_encryption(header)) =>
        (ErrWhat = "A content encryption is not registered"
            <=> content_encryption(header).some \notin DOMAIN content_encryptions)
C10_Calls ==
    /\ OutIs("serialize_compact") /\ IsSome(out.sel) => C10_EncNotRegistered(out.header)
    /\ (/\ OutIs("deserialize_compact")
        /\ out.sel.ret = "some"
        /\ Len(Indexies(out.input)) = 4
        /\ HeaderParses(out.input))
       => C10_EncNotRegistered(from_map(ParsedClaims(out.input)))
C10_Steps ==
    /\ \A c \in AddableEncs : AddContentEncryption(c) =>
          \A n \in EncNames :
              get_content_encryption(content_encryptions', n) =
                  IF n = c.name THEN Some(c)
                  ELSE get_content_encryption(content_encryptions, n)
    /\ \A r \in RemovableEncNames : RemoveContentEncryption(r) =>
          \A n \in EncNames :
              get_content_encryption(content_encryptions', n) =
                  IF n = r THEN None
                  ELSE get_content_encryption(content_encryptions, n)
    /\ \A c \in AddableZips : AddCompression(c) =>
          \A n \in ZipNames :
              get_compression(compressions', n) =
                  IF n = c.name THEN Some(c) ELSE get_compression(compressions, n)
    /\ \A r \in RemovableZipNames : RemoveCompression(r) =>
          \A n \in ZipNames :
              get_compression(compressions', n) =
                  IF n = r THEN None ELSE get_compression(compressions, n)
C10_Registry ==
    /\ \A n \in BuiltinEncNames :
          get_content_encryption(content_encryptions, n) = Some(Cap(n, "builtin"))
    /\ [][C10_Steps]_vars
    /\ []C10_Calls

\* A name was removed, and a compact call that names it is refused.
C10_Witness ==
    /\ OutIs("serialize_compact")
    /\ "A128GCM" \notin DOMAIN content_encryptions
    /\ ErrWhat = "A content encryption is not registered"

\* ------------------------------------------------------------------ claims of the JWT layer

RetIs(op) == ret # NoRet /\ ret.op = op
RetOk == ~IsPanic(ret.res) /\ ~IsErr(ret.res)

\* C11: decode_unsecured accepts an input only if it has exactly two '.', the
\* second one at its end, a header whose alg is the string "none" and no kid
\* of any type; every input that lacks one of these is refused with an error.
UnsecuredShape(input) ==
    /\ Len(Indexies(input)) = 2
    /\ Indexies(input)[2] = Len(input)
    /\ HeaderParses(input)
    /\ "alg" \in DOMAIN ParsedClaims(input)
    /\ ParsedClaims(input)["alg"] = Str("none")
    /\ "kid" \notin DOMAIN ParsedClaims(input)
C11_UnsecuredDecode ==
    RetIs("decode_unsecured") =>
        /\ RetOk => UnsecuredShape(ret.input)
        /\ ~UnsecuredShape(ret.input) => IsErr(ret.res)

\* A peer's token with alg "none" and a kid that is not even a string is refused.
C11_Witness ==
    /\ RetIs("decode_unsecured")
    /\ HeaderParses(ret.input)
    /\ ParsedClaims(ret.input) = ("alg" :> Str("none")) @@ ("kid" :> Num(1))
    /\ Len(Indexies(ret.input)) = 2
    /\ IsErr(ret.res)

\* C12: decoding the token encode_unsecured made of a payload and a header
\* gives back that payload and that header with alg set to "none".
C12_UnsecuredRoundTrip ==
    RetIs("decode_unsecured") /\ IsSome(ret.sent) =>
        ret.res = Ok([payload |-> ret.sent.some.payload,
                      header |-> JwsHeader_set_algorithm(ret.sent.some.header, "none")])

\* C13: with t the base time if set and the clock otherwise, validate refuses
\* the payload as not yet valid exactly when nbf > t; a payload with exp <= t
\* is refused, and one refused as expired has exp <= t; a payload that passes
\* the time checks has neither, and an absent nbf or exp refuses nothing.
CurrentTime == IF IsSome(validator.base_time) THEN validator.base_time.some ELSE ret.now
Refused(what) == IsErr(ret.res) /\ ret.res.err = InvalidClaim /\ ret.res.what.what = what
Nbf == JwtPayload_not_before(jwt_payload)
Exp == JwtPayload_expires_at(jwt_payload)
C13_TimeBoundaries ==
    RetIs("validate") =>
        /\ Refused("The token is not yet valid") <=> (IsSome(Nbf) /\ Nbf.some > CurrentTime)
        /\ (IsSome(Exp) /\ Exp.some <= CurrentTime) => IsErr(ret.res)
        /\ Refused("The token has expired") => (IsSome(Exp) /\ Exp.some <= CurrentTime)
        /\ (~IsSome(Nbf) \/ Nbf.some <= CurrentTime) /\ (IsSome(Exp) /\ Exp.some <= CurrentTime)
              => Refused("The token has expired")

\* exp equal to the base time is refused as expired while nbf equals it too.
C13_Witness ==
    /\ RetIs("validate")
    /\ IsSome(validator.base_time)
    /\ Exp = Some(validator.base_time.some)
    /\ Nbf = Some(validator.base_time.some)
    /\ Refused("The token has expired")

\* C14: when the validator expects an audience, validate succeeds only if the
\* payload's aud claim, a string or an array of strings, includes it.
AudIncludes(p, a) ==
    /\ "aud" \in DOMAIN p.claims
    /\ IF IsArr(p.claims["aud"]) THEN Contains(p.claims["aud"].arr, Str(a))
       ELSE p.claims["aud"] = Str(a)
C14_AudienceCheck ==
    RetIs("validate") /\ IsSome(validator.audience) =>
        IF AudIncludes(jwt_payload, validator.audience.some) THEN TRUE
        ELSE IsErr(ret.res) /\ ret.res.err = InvalidClaim

\* C15: validate fails with InvalidClaim unless the payload holds, for every
\* claim of the validator, that name with an equal JSON value.
HoldsAll(v, p) == \A k \in DOMAIN v.claims : k \in DOMAIN p.claims /\ p.claims[k] = v.claims[k]
C15_AdditionalClaims ==
    RetIs("validate") /\ ~HoldsAll(validator, jwt_payload) =>
        IsErr(ret.res) /\ ret.res.err = InvalidClaim

\* The validator holds a claim the payload lacks, and the time and audience
\* checks pass: the call fails on the missing claim.
C15_Witness ==
    /\ RetIs("validate")
    /\ \E k \in DOMAIN validator.claims : k \notin DOMAIN jwt_payload.claims
    /\ Refused("is missing")

\* C18: from_map(m) succeeds exactly when set_claim(k, Some(v)) succeeds for
\* every entry of m on an empty payload, and then both give the same payload;
\* it fails on a reserved claim of the wrong JSON type.
RECURSIVE SetClaimPath(_, _, _)
SetClaimPath(m, i, p) ==
    IF i > Len(KeyOrder) THEN Done(p, Ok(TRUE))
    ELSE IF KeyOrder[i] \notin DOMAIN m THEN SetClaimPath(m, i + 1, p)
    ELSE LET done == JwtPayload_set_claim(p, KeyOrder[i], Some(m[KeyOrder[i]]))
         IN IF done.result = Ok(TRUE) THEN SetClaimPath(m, i + 1, done.payload) ELSE done
WrongPayloadType(m) ==
    \/ \E k \in DOMAIN m \cap {"iss", "sub", "jti"} : ~IsStr(m[k])
    \/ /\ "aud" \in DOMAIN m
       /\ ~IsStr(m["aud"])
       /\ ~(IsArr(m["aud"]) /\ \A j \in DOMAIN m["aud"].arr : IsStr(m["aud"].arr[j]))
    \/ \E k \in DOMAIN m \cap {"exp", "nbf", "iat"} : ~IsNum(m[k]) \/ m[k] = Num(-1)
C18_FromMapAsSetters ==
    RetIs("from_map") =>
        LET path == SetClaimPath(ret.claims, 1, JwtPayload_new) IN
        /\ RetOk <=> path.result = Ok(TRUE)
        /\ RetOk => ret.res.ok = path.payload /\ jwt_payload = path.payload
        /\ WrongPayloadType(ret.claims) => ~RetOk

\* from_map built the typed cache of an array aud and of exp.
C18_Witness ==
    /\ RetIs("from_map")
    /\ RetOk
    /\ DOMAIN ret.res.ok.sources = {"aud", "exp"}

\* C19: after a typed setter of JwtPayload, the typed accessor returns the
\* value that was set.
C19_SetThenGet ==
    /\ RetIs("set_audience") => JwtPayload_audience(jwt_payload) = Some(ret.value)
    /\ RetIs("set_issuer") => JwtPayload_issuer(jwt_payload) = Some(ret.value)
    /\ RetIs("set_subject") => JwtPayload_subject(jwt_payload) = Some(ret.value)
    /\ RetIs("set_jwt_id") => JwtPayload_jwt_id(jwt_payload) = Some(ret.value)
    /\ RetIs("set_expires_at") => JwtPayload_expires_at(jwt_payload) = Some(ret.value)
    /\ RetIs("set_not_before") => JwtPayload_not_before(jwt_payload) = Some(ret.value)
    /\ RetIs("set_issued_at") => JwtPayload_issued_at(jwt_payload) = Some(ret.value)

\* ------------------------------------------------------------------ claims of the header

\* C16: set_claim with a JSON value of the wrong shape for a reserved claim
\* returns an error, and a call that returns an error leaves the claim map
\* and the typed cache as they were.
InvalidShape(key, v) ==
    \/ key \in {"alg", "enc", "zip", "jku", "x5u", "kid", "typ", "cty"} /\ ~IsStr(v)
    \/ key = "jwk" /\ (IF IsObj(v) THEN IsErr(Jwk_from_map(v.obj)) ELSE TRUE)
    \/ key \in {"x5t", "x5t#S256"} /\ (IF IsStr(v) THEN v.str \notin DOMAIN B64Table ELSE TRUE)
    \/ key = "x5c" /\ (IF IsArr(v)
                       THEN \E j \in DOMAIN v.arr :
                               IF IsStr(v.arr[j]) THEN v.arr[j].str \notin DOMAIN B64Table
                               ELSE TRUE
                       ELSE TRUE)
    \/ key = "crit" /\ (IF IsArr(v) THEN \E j \in DOMAIN v.arr : ~IsStr(v.arr[j]) ELSE TRUE)
C16_AtomicRejection ==
    OutIs("set_claim") =>
        /\ IsSome(out.value) /\ InvalidShape(out.key, out.value.some) => Status("err")
        /\ Status("err") => hdr = out.before

\* A chain whose second element is no base64url text is refused on a header
\* that holds typed claims, after the first element decoded.
C16_Witness ==
    /\ OutIs("set_claim")
    /\ out.key = "x5c"
    /\ out.value = Some(Arr(<<Str("AQ"), Str("!")>>))
    /\ Status("err")
    /\ "x5c" \in DOMAIN out.before.sources
    /\ hdr = out.before

\* C17: in every header, each of jwk, x5c, x5t, x5t#S256 and crit is in the
\* claim map exactly when it is in the typed cache, the cached value is the
\* decoding of the raw value, and the typed accessor returns it.
TypedKeys == {"jwk", "x5c", "x5t", "x5t#S256", "crit"}
Decoding(key, v) ==
    IF InvalidShape(key, v) THEN None
    ELSE IF key = "jwk" THEN Some([Jwk |-> Jwk_from_map(v.obj).ok])
    ELSE IF key = "x5c"
         THEN Some([BytesArray |-> [i \in DOMAIN v.arr |-> B64Table[v.arr[i].str]]])
    ELSE IF key = "crit" THEN Some([StringArray |-> [i \in DOMAIN v.arr |-> v.arr[i].str]])
    ELSE Some([Bytes |-> B64Table[v.str]])
Accessor(h, key) ==
    IF key = "jwk" THEN jwk(h)
    ELSE IF key = "x5c" THEN x509_certificate_chain(h)
    ELSE IF key = "x5t" THEN x509_certificate_sha1_thumbprint(h)
    ELSE IF key = "x5t#S256" THEN x509_certificate_sha256_thumbprint(h)
    ELSE critical(h)
Typed(src) == src[CHOOSE f \in DOMAIN src : TRUE]
Consistent(h) ==
    \A k \in TypedKeys :
        /\ k \in DOMAIN h.claims <=> k \in DOMAIN h.sources
        /\ k \in DOMAIN h.claims =>
              /\ Some(h.sources[k]) = Decoding(k, h.claims[k])
              /\ Accessor(h, k) = Some(Typed(h.sources[k]))
C17_RawTypedConsistent == Consistent(hdr)


\* ------------------------------------------------------------------ the HMAC signer and verifier

NumSecrets == 2
NumMessages == 2
KeyLens == {10, 32, 64}

Secrets == {[bytes |-> b, len |-> l, zeros |-> z] : b \in 1..NumSecrets, l \in KeyLens, z \in {0, 1}}
Messages == {[message |-> i] : i \in 1..NumMessages}

\* Keys of the oct type as HmacJwsAlgorithm::to_jwk builds them, and keys a
\* peer hands over: for another use, for one operation only, for another
\* algorithm, of another type, without k, with a k that is no string.
HmacJwks ==
    {to_jwk(alg, k) : alg \in HmacJwsAlgorithms, k \in {x \in Secrets : x.bytes = 1 /\ x.zeros = 0}}
    \cup {[to_jwk("HS256", k) EXCEPT !.alg = None, !.kid = Some("kid-0")] : k \in {x \in Secrets : x.bytes = 2 /\ x.zeros = 0}}
    \cup LET k == [bytes |-> 1, len |-> 32, zeros |-> 0]
         IN {[to_jwk("HS256", k) EXCEPT !.use = Some("enc")],
          [to_jwk("HS256", k) EXCEPT !.key_ops = Some({"sign"})],
          [to_jwk("HS256", k) EXCEPT !.key_ops = Some({"verify"})],
          [to_jwk("HS256", k) EXCEPT !.kty = "RSA"],
          [to_jwk("HS256", k) EXCEPT !.k = None],
          [to_jwk("HS256", k) EXCEPT !.k = Some(Num(1))]}

\* Every signature a signer of the family can make, and bytes none makes.
Signatures ==
    {Hmac(hash_algorithm(alg), k, m) : alg \in HmacJwsAlgorithms, k \in Secrets, m \in Messages}
    \cup {[raw |-> 0]}

HmacUnchanged == UNCHANGED <<jwe_vars, jwt_vars, ctx_vars>>

\* A constructor call: the caller keeps what it built.
Built(op, res, kept) == IF ~IsErr(res) THEN Some(res.ok) ELSE kept

SignerFromSlice(alg, input) ==
    /\ jws = NoRet
    /\ signer = None /\ verifier = None
    /\ signer' = Built("signer_from_slice", signer_from_slice(alg, input), signer)
    /\ jws' = [op |-> "signer_from_slice", res |-> signer_from_slice(alg, input)]
    /\ UNCHANGED verifier
    /\ HmacUnchanged

SignerFromJwk(alg, key) ==
    /\ jws = NoRet
    /\ signer = None /\ verifier = None
    /\ signer' = Built("signer_from_jwk", signer_from_jwk(alg, key), signer)
    /\ jws' = [op |-> "signer_from_jwk", res |-> signer_from_jwk(alg, key)]
    /\ UNCHANGED verifier
    /\ HmacUnchanged

Sign(message) ==
    /\ IsSome(signer) /\ verifier = None
    /\ jws.op \in {"signer_from_slice", "signer_from_jwk"}
    /\ jws' = [op |-> "sign", message |-> message, res |-> sign(signer.some, message)]
    /\ UNCHANGED <<signer, verifier>>
    /\ HmacUnchanged

VerifierFromSlice(alg, input) ==
    /\ verifier = None
    /\ IF jws = NoRet THEN TRUE ELSE jws.op = "sign"
    /\ verifier' = Built("verifier_from_slice", verifier_from_slice(alg, input), verifier)
    /\ jws' = [op |-> "verifier_from_slice", alg |-> alg, input |-> input,
               res |-> verifier_from_slice(alg, input),
               signed |-> IF jws = NoRet THEN None ELSE Some([message |-> jws.message, signature |-> jws.res.ok])]
    /\ UNCHANGED signer
    /\ HmacUnchanged

VerifierFromJwk(alg, key) ==
    /\ verifier = None
    /\ IF jws = NoRet THEN TRUE ELSE jws.op = "sign"
    /\ verifier' = Built("verifier_from_jwk", verifier_from_jwk(alg, key), verifier)
    /\ jws' = [op |-> "verifier_from_jwk", res |-> verifier_from_jwk(alg, key),
               signed |-> IF jws = NoRet THEN None ELSE Some([message |-> jws.message, signature |-> jws.res.ok])]
    /\ UNCHANGED signer
    /\ HmacUnchanged

\* verify of what the caller's signer has signed
VerifySigned ==
    /\ IsSome(verifier)
    /\ jws.op \in {"verifier_from_slice", "verifier_from_jwk"}
    /\ IsSome(jws.signed)
    /\ jws' = [op |-> "verify", message |-> jws.signed.some.message,
               signature |-> jws.signed.some.signature,
               res |-> verify(verifier.some, jws.signed.some.message, jws.signed.some.signature)]
    /\ UNCHANGED <<signer, verifier>>
    /\ HmacUnchanged

\* verify of a message and a signature a peer hands over
Verify(message, signature) ==
    /\ IsSome(verifier) /\ signer = None
    /\ jws.op \in {"verifier_from_slice", "verifier_from_jwk"}
    /\ jws' = [op |-> "verify", message |-> message, signature |-> signature,
               res |-> verify(verifier.some, message, signature)]
    /\ UNCHANGED <<signer, verifier>>
    /\ HmacUnchanged

HmacNext ==
    \/ \E alg \in HmacJwsAlgorithms, input \in Secrets : SignerFromSlice(alg, input)
    \/ \E alg \in HmacJwsAlgorithms, key \in HmacJwks : SignerFromJwk(alg, key)
    \/ \E message \in Messages : Sign(message)
    \/ \E alg \in HmacJwsAlgorithms, input \in Secrets : VerifierFromSlice(alg, input)
    \/ \E alg \in HmacJwsAlgorithms, key \in HmacJwks : VerifierFromJwk(alg, key)
    \/ VerifySigned
    \/ \E message \in Messages, signature \in Signatures : Verify(message, signature)

SpecHmac == Init /\ [][HmacNext]_vars

JwsIs(op) == IF jws = NoRet THEN FALSE ELSE jws.op = op

\* sign_k(m) for the secret and the algorithm of a verifier
SignatureOf(v, message) ==
    sign([algorithm |-> v.algorithm, private_key |-> v.private_key, key_id |-> None], message).ok

\* C20: for HS256, HS384 and HS512, a verifier built from a secret k accepts
\* a message with the signature a signer built from k with the same algorithm
\* made of it, and fails with InvalidSignature for every signature that is not
\* sign_k(m); a signature made under another algorithm of the family is
\* rejected, and so is one made under a secret that HMAC does not turn into the
\* key block of k.
C20_HmacSignVerify ==
    JwsIs("verify") =>
        LET v == verifier.some
            made == SignatureOf(v, jws.message)
        IN /\ jws.signature = made => jws.res = Ok(TRUE)
           /\ jws.signature # made => IsErr(jws.res) /\ jws.res.err = InvalidSignature
           /\ \A alg \in HmacJwsAlgorithms, k \in Secrets :
                 /\ jws.signature = Hmac(hash_algorithm(alg), k, jws.message)
                 /\ \/ alg # v.algorithm
                    \/ key_block(hash_algorithm(alg), k) # key_block(hash_algorithm(alg), v.private_key)
                 => IsErr(jws.res) /\ jws.res.err = InvalidSignature

\* The caller's own signer and verifier, built from one secret with one
\* algorithm, and the signature accepted.
C20_Witness ==
    /\ JwsIs("verify")
    /\ IsSome(signer) /\ IsSome(verifier)
    /\ signer.some.algorithm = verifier.some.algorithm
    /\ signer.some.private_key = verifier.some.private_key
    /\ jws.signature = sign(signer.some, jws.message).ok
    /\ jws.res = Ok(TRUE)

\* C20 as stated: a signature made under any other secret is rejected.
C20_OtherKeyRejected ==
    JwsIs("verify") =>
        \A alg \in HmacJwsAlgorithms, k \in Secrets :
            /\ jws.signature = Hmac(hash_algorithm(alg), k, jws.message)
            /\ alg # verifier.some.algorithm \/ k # verifier.some.private_key
            => IsErr(jws.res) /\ jws.res.err = InvalidSignature

\* ------------------------------------------------------------------ claims of the compact calls

\* The position of the first call of f in the calls of the last operation, or 0.
FirstCall(f) ==
    IF Invoked(f) THEN CHOOSE i \in DOMAIN out.res.calls :
                           /\ out.res.calls[i].fn = f
                           /\ \A j \in 1..(i - 1) : out.res.calls[j].fn # f
    ELSE 0

\* The number of calls of f in the calls of the last operation.
CountCalls(f) == Cardinality({i \in DOMAIN out.res.calls : out.res.calls[i].fn = f})

\* The i-th of the five segments of a compact text, decoded.
Segment(input, i) ==
    LET ix == Indexies(input)
        from == IF i = 1 THEN 1 ELSE ix[i - 1] + 1
        to == IF i = 5 THEN Len(input) ELSE ix[i] - 1
    IN B64Decode(SubSeq(input, from, to))

\* The decrypter unwraps the key of the input.
Unwraps(input, d) ==
    /\ ~IsErr(Segment(input, 2))
    /\ ~IsErr(unwrap(d, from_map(ParsedClaims(input)), Segment(input, 2).ok, InvalidJweFormat))

\* The tag of the input authenticates its ciphertext and its header text
\* under the key the decrypter unwraps and the content encryption the header
\* names.
Authentic(input, d) ==
    LET h == from_map(ParsedClaims(input)) IN
    /\ Unwraps(input, d)
    /\ ~IsErr(Segment(input, 3)) /\ ~IsErr(Segment(input, 4)) /\ ~IsErr(Segment(input, 5))
    /\ IsSome(get_content_encryption(content_encryptions, content_encryption(h).some))
    /\ ~IsErr(aead_decrypt(get_content_encryption(content_encryptions, content_encryption(h).some).some,
                           unwrap(d, h, Segment(input, 2).ok, InvalidJweFormat).ok,
                           Segment(input, 3).ok, Segment(input, 4).ok, Segment(input, 1).ok,
                           Segment(input, 5).ok, InvalidJweFormat))

\* C22: the kid of the header serialize_compact emits is the kid of the
\* header as encrypter.encrypt left it, if it has one; otherwise the key id of
\* the encrypter, if it has one; otherwise there is none.  The caller's header
\* is as it was before the call.
C22_KidDefaultFill ==
    OutIs("serialize_compact") /\ Status("ok") =>
        LET emitted == ParsedClaims(out.res.message)
            left == encrypt(out.sel.some, out.header, [k |-> 1], TRUE, InvalidJweFormat).header
        IN /\ MapGet(emitted, "kid") =
                 IF IsSome(claim(left, "kid")) THEN claim(left, "kid")
                 ELSE IF IsSome(out.sel.some.key_id) THEN Some(Str(out.sel.some.key_id.some))
                 ELSE None
           /\ hdr = out.header

\* The caller's header has a kid and the encrypter another: the caller's is emitted.
C22_Witness ==
    /\ OutIs("serialize_compact")
    /\ Status("ok")
    /\ claim(out.header, "kid") = Some(Str("kid-0"))
    /\ out.sel.some.key_id = Some("kid-1")
    /\ ParsedClaims(out.res.message)["kid"] = Str("kid-0")

\* C28: deserialize_compact_with_selector invokes the AEAD decrypt only after
\* the key unwrap succeeded, invokes decompress only after the AEAD decrypt of
\* the call succeeded, returns Ok only if the tag authenticated the ciphertext
\* and the header text, and returns no payload on a failure.
C28_NoUnauthenticatedPlaintext ==
    OutIs("deserialize_compact") =>
        /\ Invoked("aead_decrypt") =>
              /\ Invoked("unwrap")
              /\ FirstCall("unwrap") < FirstCall("aead_decrypt")
              /\ Unwraps(out.input, out.sel.dec)
        /\ Invoked("decompress") =>
              /\ Invoked("aead_decrypt")
              /\ FirstCall("aead_decrypt") < FirstCall("decompress")
              /\ Authentic(out.input, out.sel.dec)
        /\ Status("ok") => Invoked("aead_decrypt") /\ Authentic(out.input, out.sel.dec)
        /\ ~Status("ok") => "payload" \notin DOMAIN out.res

\* The message the caller made comes back with another tag: the key is
\* unwrapped, the AEAD decrypt is invoked and fails, nothing is returned.
C28_Witness ==
    /\ OutIs("deserialize_compact")
    /\ msg # NoMsg
    /\ out.input # msg.message
    /\ Invoked("unwrap")
    /\ Invoked("aead_decrypt")
    /\ ~Invoked("decompress")
    /\ Status("err")

\* ------------------------------------------------------------------ JWT over JWE

\* JwkSet::get(key_id) of crate::member: the keys of the set with this key id,
\* in the order of the set.
JwkSet_get(jwk_set, kid) ==
    SelectSeq(jwk_set, LAMBDA member : member.kid = Some(kid))

\* The loop of decode_with_decrypter_in_jwk_set that goes on after a key was
\* accepted and keeps the last one.
RECURSIVE jwk_set_loop_last(_, _, _, _, _)
jwk_set_loop_last(jwks, selector, i, tried, found) ==
    IF i > Len(jwks) THEN [sel |-> found, tried |-> tried]
    ELSE LET r == selector[jwks[i]] IN
         IF r.ret = "err" THEN [sel |-> r, tried |-> Append(tried, jwks[i])]
         ELSE jwk_set_loop_last(jwks, selector, i + 1, Append(tried, jwks[i]),
                                IF r.ret = "some" THEN r ELSE found)

\* The loop of decode_with_decrypter_in_jwk_set over the keys with the kid of
\* the header: what the closure returns, and the keys the caller's selector
\* was asked about.
RECURSIVE jwk_set_loop(_, _, _, _, _)
jwk_set_loop(jwks, selector, i, tried, found) ==
    IF i > Len(jwks) THEN [sel |-> found, tried |-> tried]
    ELSE LET r == selector[jwks[i]] IN
         IF r.ret # "none" THEN [sel |-> r, tried |-> Append(tried, jwks[i])]
         ELSE jwk_set_loop(jwks, selector, i + 1, Append(tried, jwks[i]), found)

\* The closure decode_with_decrypter_in_jwk_set hands to
\* decode_with_decrypter_selector.
jwk_set_selector(header, jwk_set, selector) ==
    IF ~IsSome(key_id(header)) THEN [sel |-> SelNone, tried |-> <<>>]
    ELSE jwk_set_loop(JwkSet_get(jwk_set, key_id(header).some), selector, 1, <<>>, SelNone)

\* JwtContext::decode_with_decrypter_selector
decode_with_decrypter_selector(ces, zips, input, sel, fk) ==
    LET r == deserialize_compact_with_selector(ces, zips, input, sel, fk) IN
    IF r.status # "ok" THEN r
    ELSE LET payload == from_slice(r.payload) IN
         IF IsErr(payload) THEN Failed(r.calls, InvalidJwtFormat, "json")
         ELSE LET p == JwtPayload_from_map(payload.ok) IN
              IF IsPanic(p) THEN Panicked(r.calls)
              ELSE IF IsErr(p) THEN Failed(r.calls, p.err, p.what)
              ELSE [status |-> "ok", calls |-> r.calls, payload |-> p.ok, header |-> r.header]

\* JwtContext::decode_with_decrypter
decode_with_decrypter(ces, zips, input, decrypter, fk) ==
    decode_with_decrypter_selector(ces, zips, input, SelSome(decrypter), fk)

\* JwtContext::decode_with_decrypter_in_jwk_set: the result, and the keys the
\* caller's selector was asked about.  The closure runs where the engine
\* calls its selector, on the header the engine parsed.
decode_with_decrypter_in_jwk_set(ces, zips, input, jwk_set, selector, fk) ==
    LET reached == Len(Indexies(input)) = 4 /\ HeaderParses(input)
        s == IF reached
             THEN jwk_set_selector(from_map(ParsedClaims(input)), jwk_set, selector)
             ELSE [sel |-> SelNone, tried |-> <<>>]
    IN [res |-> decode_with_decrypter_selector(ces, zips, input, s.sel, fk),
        sel |-> s.sel,
        jwk_calls |-> s.tried]

\* Keys of a set: a key id and a key.
DecryptJwks == {[kid |-> Some("kid-1"), k |-> k] : k \in 1..NumKeys}
                   \cup {[kid |-> Some("kid-0"), k |-> 1], [kid |-> None, k |-> 1]}

JwkSets ==
    { <<>>,
      <<[kid |-> Some("kid-1"), k |-> 1]>>,
      <<[kid |-> Some("kid-1"), k |-> 2], [kid |-> Some("kid-1"), k |-> 1]>>,
      <<[kid |-> Some("kid-0"), k |-> 1], [kid |-> Some("kid-1"), k |-> 1],
        [kid |-> None, k |-> 1], [kid |-> Some("kid-1"), k |-> 2]>> }

\* The caller's selectors over the keys of a set: a decrypter of the direct
\* algorithm for every key, for key 1 only, for no key, and one that fails on
\* key 2.
DirOf(member) == SelSome([alg |-> "dir", key |-> [k |-> member.k], key_id |-> member.kid])
JwkSelectors ==
    { [member \in DecryptJwks |-> DirOf(member)],
      [member \in DecryptJwks |-> IF member.k = 1 THEN DirOf(member) ELSE SelNone],
      [member \in DecryptJwks |-> SelNone],
      [member \in DecryptJwks |-> IF member.k = 2 THEN SelErr("InvalidKeyFormat") ELSE DirOf(member)] }

\* JWTs a peer encrypts with key 1: with the direct algorithm or with a
\* wrapped content key, with a key id or none, of a claim set or of bytes that
\* are no JSON.
JwtPlaintexts == {to_vec("iss" :> Str("a")), to_vec("exp" :> Str("a")), [raw |-> 1]}
PeerJwe(alg, kid, plaintext) ==
    LET claims == ("alg" :> Str(alg)) @@ ("enc" :> Str("A128GCM"))
                  @@ (IF IsSome(kid) THEN "kid" :> Str(kid.some) ELSE EmptyMap)
        hb == to_vec(claims)
        cek == IF alg = "dir" THEN [k |-> 1] ELSE [k |-> 2]
        ek == IF alg = "dir" THEN <<>>
              ELSE B64([wrap_alg |-> alg, wrap_key |-> [k |-> 1], wrap_cek |-> cek])
        ct == aead_encrypt(Cap("A128GCM", "builtin"), cek, [iv |-> 1], plaintext, hb)
    IN B64(hb) \o <<Dot>> \o ek \o <<Dot>> \o B64([iv |-> 1]) \o <<Dot>>
       \o B64(ct.ciphertext) \o <<Dot>> \o B64(ct.tag)
PeerJwes ==
    {PeerJwe(alg, kid, pt) : alg \in {"dir", "A128KW"}, kid \in {None, Some("kid-1")},
                             pt \in JwtPlaintexts}
    \cup {<<Dot, Dot, Dot>>, <<[lit |-> "%"], Dot, Dot, Dot, Dot>>}

DecodeWithDecrypterSelector(input, sel, fk) ==
    /\ Receiving
    /\ out' = [op |-> "decode_with_decrypter_selector", input |-> input, sel |-> sel,
               res |-> decode_with_decrypter_selector(content_encryptions, compressions,
                                                      input, sel, fk)]
    /\ UNCHANGED <<content_encryptions, compressions, hdr, msg, jwt_vars, jws_vars, ctx_vars>>

DecodeWithDecrypterInJwkSet(input, jwk_set, selector, fk) ==
    /\ Receiving
    /\ LET r == decode_with_decrypter_in_jwk_set(content_encryptions, compressions,
                                                 input, jwk_set, selector, fk)
       IN out' = [op |-> "decode_with_decrypter_in_jwk_set", input |-> input,
                  jwk_set |-> jwk_set, selector |-> selector,
                  sel |-> r.sel, jwk_calls |-> r.jwk_calls, res |-> r.res]
    /\ UNCHANGED <<content_encryptions, compressions, hdr, msg, jwt_vars, jws_vars, ctx_vars>>

DecryptNext ==
    \/ \E c \in AddableEncs : AddContentEncryption(c)
    \/ \E n \in RemovableEncNames : RemoveContentEncryption(n)
    \/ \E c \in AddableZips : AddCompression(c)
    \/ \E n \in RemovableZipNames : RemoveCompression(n)
    \/ Return
    \/ \E input \in PeerJwes, sel \in SelectorsDec, fk \in JoseErrorKinds :
          DeserializeCompact(input, sel, fk)
    \/ \E input \in PeerJwes, sel \in SelectorsDec, fk \in JoseErrorKinds :
          DecodeWithDecrypterSelector(input, sel, fk)
    \/ \E input \in PeerJwes, jwk_set \in JwkSets, selector \in JwkSelectors,
          fk \in JoseErrorKinds :
          DecodeWithDecrypterInJwkSet(input, jwk_set, selector, fk)

SpecDecrypt == Init /\ [][DecryptNext]_vars

\* The calls the engine made in a decode or deserialize call.
Decoding3 ==
    \/ OutIs("deserialize_compact")
    \/ OutIs("decode_with_decrypter_selector")
    \/ OutIs("decode_with_decrypter_in_jwk_set")

\* C21: one call of deserialize_compact_with_selector, of
\* decode_with_decrypter_selector or of decode_with_decrypter_in_jwk_set
\* invokes the selector at most once, one unwrap at most and one AEAD decrypt
\* at most; it returns Ok only if the one decrypter the selector gave unwraps
\* and authenticates, and the failure of that decrypter otherwise.  The keys
\* of a JWK set are tried inside the selector only, in the order of the set,
\* up to the first the caller's selector does not pass over.
C21_SingleAttempt ==
    /\ Decoding3 =>
          /\ CountCalls("selector") <= 1
          /\ CountCalls("unwrap") <= 1
          /\ CountCalls("aead_decrypt") <= 1
          /\ Status("ok") => out.sel.ret = "some" /\ Authentic(out.input, out.sel.dec)
          /\ (/\ Invoked("unwrap")
              /\ ~Authentic(out.input, out.sel.dec))
             => /\ Status("err")
                /\ out.res.calls[Len(out.res.calls)].fn \in {"unwrap", "decode", "aead_decrypt"}
    /\ OutIs("decode_with_decrypter_in_jwk_set") =>
          LET keys == JwkSet_get(out.jwk_set,
                                 key_id(from_map(ParsedClaims(out.input))).some)
              n == Len(out.jwk_calls)
          IN /\ n > 0 => Invoked("selector")
             /\ n > 0 => n <= Len(keys) /\ out.jwk_calls = SubSeq(keys, 1, n)
             /\ \A i \in 1..(n - 1) : out.selector[out.jwk_calls[i]] = SelNone
             /\ n > 0 => out.sel = out.selector[out.jwk_calls[n]] \/ out.sel = SelNone
             /\ out.sel.ret = "some" => n > 0 /\ out.sel = out.selector[out.jwk_calls[n]]

\* A set with two keys of the header's kid, the first of which the caller's
\* selector accepts and does not decrypt the token, the second of which would:
\* the call fails after one selector call, one unwrap and one AEAD decrypt.
C21_Witness ==
    /\ OutIs("decode_with_decrypter_in_jwk_set")
    /\ Len(out.jwk_calls) = 1
    /\ out.jwk_calls[1].k = 2
    /\ Len(JwkSet_get(out.jwk_set, "kid-1")) = 2
    /\ out.selector[[kid |-> Some("kid-1"), k |-> 1]].ret = "some"
    /\ Authentic(out.input, out.selector[[kid |-> Some("kid-1"), k |-> 1]].dec)
    /\ CountCalls("selector") = 1
    /\ CountCalls("unwrap") = 1
    /\ CountCalls("aead_decrypt") = 1
    /\ Status("err")

\* ------------------------------------------------------------------ equality of contexts

\* The frames a thread's stack holds before it gives out.
MaxStack == 3

\* A call that does not return: the stack overflows and the process is
\* aborted, or the call goes on for ever.
NoReturn == [noreturn |-> TRUE]
Eq(b) == [eq |-> b]

\* PartialEq for Box<dyn JweContentEncryption>, for Box<dyn JweCompression>
\* and for Box<dyn JweAlgorithm>: eq is `self == other` on the same two
\* boxes, which is eq again.
RECURSIVE box_eq(_, _, _)
box_eq(self, other, depth) ==
    IF depth >= MaxStack THEN NoReturn ELSE box_eq(self, other, depth + 1)

\* The capability names of the model in the byte order of their text, the
\* order in which a BTreeMap is iterated.
CapOrder == <<"A128CBC-HS256", "A128GCM", "A192CBC-HS384", "A192GCM", "A256CBC-HS512",
             "A256GCM", "DEF">>
MapKeys(m) == SelectSeq(CapOrder, LAMBDA n : n \in DOMAIN m)

\* PartialEq of BTreeMap<String, Box<dyn ..>>: the lengths, then the entries
\* pair by pair in key order, the key before the value, up to the first pair
\* that differs.
RECURSIVE map_eq_from(_, _, _)
map_eq_from(a, b, i) ==
    IF i > Len(MapKeys(a)) THEN Eq(TRUE)
    ELSE IF MapKeys(a)[i] # MapKeys(b)[i] THEN Eq(FALSE)
    ELSE LET r == box_eq(a[MapKeys(a)[i]], b[MapKeys(b)[i]], 0) IN
         IF r = NoReturn THEN NoReturn
         ELSE IF r = Eq(FALSE) THEN Eq(FALSE)
         ELSE map_eq_from(a, b, i + 1)

map_eq(a, b) ==
    IF Len(MapKeys(a)) # Len(MapKeys(b)) THEN Eq(FALSE) ELSE map_eq_from(a, b, 1)

\* A JweContext is its three fields.
JweContext_new ==
    [acceptable_criticals |-> JweContext_new_acceptable_criticals,
     compressions |-> JweContext_new_compressions,
     content_encryptions |-> JweContext_new_content_encryptions]

\* The derived PartialEq of JweContext: field by field in the order of the
\* declaration, up to the first that differs.
JweContext_eq(a, b) ==
    IF a.acceptable_criticals # b.acceptable_criticals THEN Eq(FALSE)
    ELSE LET r == map_eq(a.compressions, b.compressions) IN
         IF r # Eq(TRUE) THEN r
         ELSE map_eq(a.content_encryptions, b.content_encryptions)

\* The derived PartialEq of JwtContext: the JwsContext, then the JweContext.
JwtContext_eq(a, b) ==
    IF a.jws_context # b.jws_context THEN Eq(FALSE)
    ELSE JweContext_eq(a.jwe_context, b.jwe_context)

\* ------------------------------------------------------------------ the contexts on their own

CriticalNames == {"exp", "b64"}

\* The caller's JweContext and JwtContext.
ThisJweContext ==
    [acceptable_criticals |-> acceptable_criticals,
     compressions |-> compressions,
     content_encryptions |-> content_encryptions]
ThisJwtContext == [jws_context |-> jws_context, jwe_context |-> ThisJweContext]

ContextUnchanged == UNCHANGED <<hdr, msg, jwt_vars, jws_vars, kp>>

AddAcceptableCritical(name) ==
    /\ Idle
    /\ LET c == JwtContext_add_acceptable_critical(
                    [jws_context |-> jws_context, jwe_context |-> acceptable_criticals], name)
       IN /\ jws_context' = c.jws_context
          /\ acceptable_criticals' = c.jwe_context
    /\ UNCHANGED <<content_encryptions, compressions, out>>
    /\ ContextUnchanged

RemoveAcceptableCritical(name) ==
    /\ Idle
    /\ LET c == JwtContext_remove_acceptable_critical(
                    [jws_context |-> jws_context, jwe_context |-> acceptable_criticals], name)
       IN /\ jws_context' = c.jws_context
          /\ acceptable_criticals' = c.jwe_context
    /\ UNCHANGED <<content_encryptions, compressions, out>>
    /\ ContextUnchanged

IsAcceptableCritical(name) ==
    /\ Idle
    /\ out' = [op |-> "is_acceptable_critical", name |-> name,
               res |-> [status |-> "ok",
                        jwt |-> JwtContext_is_acceptable_critical(
                                    [jws_context |-> jws_context,
                                     jwe_context |-> acceptable_criticals], name),
                        jwe |-> is_acceptable_critical(acceptable_criticals, name)]]
    /\ UNCHANGED <<content_encryptions, compressions, acceptable_criticals, jws_context>>
    /\ ContextUnchanged

\* What the caller compares its context with: a fresh one, a clone, a fresh
\* one with the built-in compression removed, one without any capability.
OtherJweContexts ==
    {JweContext_new, ThisJweContext,
     [JweContext_new EXCEPT !.compressions = EmptyMap],
     [JweContext_new EXCEPT !.compressions = EmptyMap, !.content_encryptions = EmptyMap]}

Returned(r) == IF r = NoReturn THEN [status |-> "noreturn"] ELSE [status |-> "ok", value |-> r.eq]

JweContextEq(other) ==
    /\ Idle
    /\ out' = [op |-> "JweContext::eq", this |-> ThisJweContext, other |-> other,
               res |-> Returned(JweContext_eq(ThisJweContext, other))]
    /\ UNCHANGED <<content_encryptions, compressions, acceptable_criticals, jws_context>>
    /\ ContextUnchanged

JwtContextEq(other) ==
    /\ Idle
    /\ out' = [op |-> "JwtContext::eq", this |-> ThisJwtContext, other |-> other,
               res |-> Returned(JwtContext_eq(ThisJwtContext, other))]
    /\ UNCHANGED <<content_encryptions, compressions, acceptable_criticals, jws_context>>
    /\ ContextUnchanged

ContextNext ==
    \/ \E c \in AddableEncs : AddContentEncryption(c)
    \/ \E n \in RemovableEncNames : RemoveContentEncryption(n)
    \/ \E c \in AddableZips : AddCompression(c)
    \/ \E n \in RemovableZipNames : RemoveCompression(n)
    \/ \E name \in CriticalNames : AddAcceptableCritical(name)
    \/ \E name \in CriticalNames : RemoveAcceptableCritical(name)
    \/ \E name \in CriticalNames : IsAcceptableCritical(name)
    \/ \E other \in OtherJweContexts : JweContextEq(other)
    \/ \E other \in OtherJweContexts, names \in SUBSET CriticalNames :
          JwtContextEq([jws_context |-> [acceptable_criticals |-> names],
                        jwe_context |-> other])
    \/ Return

SpecContext == Init /\ [][ContextNext]_vars

\* C25: a comparison of two JweContext or two JwtContext values returns, and
\* it returns true for two contexts as new() makes them.
C25_EqualityTerminates ==
    /\ OutIs("JweContext::eq") =>
          /\ out.res.status = "ok"
          /\ out.this = JweContext_new /\ out.other = JweContext_new => out.res.value
    /\ OutIs("JwtContext::eq") =>
          /\ out.res.status = "ok"
          /\ (/\ out.this = [jws_context |-> JwsContext_new, jwe_context |-> JweContext_new]
              /\ out.other = out.this)
             => out.res.value

\* C29: the JwsContext and the JweContext of a JwtContext hold the same
\* acceptable critical claim names; none is acceptable at first;
\* add_acceptable_critical(n) makes n acceptable and remove_acceptable_critical(n)
\* makes it not acceptable, either leaving every other name as it was; and
\* is_acceptable_critical answers by that set.
C29_Steps ==
    /\ \A n \in CriticalNames : AddAcceptableCritical(n) =>
          \A m \in CriticalNames :
              JwsContext_is_acceptable_critical(jws_context', m) =
                  IF m = n THEN TRUE ELSE JwsContext_is_acceptable_critical(jws_context, m)
    /\ \A n \in CriticalNames : RemoveAcceptableCritical(n) =>
          \A m \in CriticalNames :
              JwsContext_is_acceptable_critical(jws_context', m) =
                  IF m = n THEN FALSE ELSE JwsContext_is_acceptable_critical(jws_context, m)
C29_InStep ==
    /\ jws_context.acceptable_criticals = acceptable_criticals
    /\ OutIs("is_acceptable_critical") =>
          /\ out.res.jwt = (out.name \in acceptable_criticals)
          /\ out.res.jwe = out.res.jwt
C29_SubContextsInStep ==
    /\ \A n \in CriticalNames : ~JwsContext_is_acceptable_critical(jws_context, n)
    /\ [][C29_Steps]_vars
    /\ []C29_InStep

\* A name was added and another added and removed again: the first is
\* acceptable, in both contexts, and the other is not.
C29_Witness ==
    /\ OutIs("is_acceptable_critical")
    /\ out.name = "b64"
    /\ out.res.jwt
    /\ acceptable_criticals = {"b64"}
    /\ jws_context.acceptable_criticals = {"b64"}

\* C26: signer_from_slice and verifier_from_slice accept the same keys: for
\* an algorithm and a key, the one succeeds exactly if the other does.
C26_SameKeysAccepted ==
    JwsIs("verifier_from_slice") =>
        (IsErr(jws.res) <=> IsErr(signer_from_slice(jws.alg, jws.input)))

\* C27: once the validator has a base time, the result of validate is that
\* of the validator and the payload alone: it is the same whatever the wall
\* clock reads during the call.
C27_ValidateDeterministic ==
    (/\ ret # NoRet
     /\ ret.op = "validate"
     /\ IsSome(validator.base_time))
    => \A now \in Times : validate(validator, jwt_payload, now) = ret.res

\* C30: the typed cache of a JwtPayload has an entry for exp, nbf or iat
\* exactly if the claim map has that key, and an entry for aud exactly if the
\* aud of the claim map is an array; every entry is the decoding of the raw
\* value, UNIX_EPOCH plus the raw seconds or the strings of the raw array;
\* and a set_claim that fails changes neither map.
TimeClaims == {"exp", "nbf", "iat"}
C30_Consistent ==
    /\ \A key \in TimeClaims :
          /\ key \in DOMAIN jwt_payload.sources <=> key \in DOMAIN jwt_payload.claims
          /\ key \in DOMAIN jwt_payload.sources =>
                /\ IsNum(jwt_payload.claims[key])
                /\ IsSome(as_u64(jwt_payload.claims[key]))
                /\ jwt_payload.sources[key] = from_secs(as_u64(jwt_payload.claims[key]).some)
    /\ "aud" \in DOMAIN jwt_payload.sources <=>
          ("aud" \in DOMAIN jwt_payload.claims /\ IsArr(jwt_payload.claims["aud"]))
    /\ "aud" \in DOMAIN jwt_payload.sources =>
          jwt_payload.sources["aud"] = StringArray(jwt_payload.claims["aud"].arr)
C30_FailedSetClaim ==
    \A c \in SetClaimCalls :
        PayloadSetClaim(c[1], c[2]) /\ IsErr(ret'.res) => jwt_payload' = jwt_payload
C30_RawTypedInvariant == []C30_Consistent /\ [][C30_FailedSetClaim]_vars

\* ------------------------------------------------------------------ DER

\* Bytes are a sequence of items: a DER element read as DerReader reads it,
\* [type |-> ..] with its value, or a block of bytes that is no DER,
\* [raw |-> ..].  DerBuilder and DerReader are defined in crate::der: an
\* element that holds others is its type, its elements and an end of
\* contents, and elements that end together have one end of contents.
DerBuilder_new == <<>>
DerBuilder_begin(der, type) == Append(der, [type |-> type])
DerBuilder_end(der) ==
    IF Len(der) > 0 /\ der[Len(der)] = [type |-> "EndOfContents"] THEN der
    ELSE Append(der, [type |-> "EndOfContents"])
append_integer_from_u8(der, val) == Append(der, [type |-> "Integer", int |-> val])
append_object_identifier(der, oid) == Append(der, [type |-> "ObjectIdentifier", oid |-> oid])
append_octed_string_from_slice(der, contents) ==
    Append(der, [type |-> "OctetString", contents |-> contents])
append_bit_string_from_slice(der, contents) ==
    Append(der, [type |-> "BitString", contents |-> contents])

\* reader.next() at the element of this position is Ok(Some(type)) of
ReadsType(der, pos, type) ==
    /\ pos <= Len(der)
    /\ "type" \in DOMAIN der[pos]
    /\ der[pos].type = type
\* reader.to_u8() of the Integer read last
to_u8(der, pos) == IF der[pos].int \in 0..255 THEN Ok(der[pos].int) ELSE Err("DerError", "Overflow")
ReadsInteger(der, pos) == ReadsType(der, pos, "Integer") /\ ~IsErr(to_u8(der, pos))
\* reader.to_object_identifier() of the ObjectIdentifier read last
ReadsOid(der, pos, oids) == ReadsType(der, pos, "ObjectIdentifier") /\ der[pos].oid \in oids

\* ------------------------------------------------------------------ EdKeyPair

OID_ED25519 == <<1, 3, 101, 112>>
OID_ED448 == <<1, 3, 101, 113>>

EdCurves == {"Ed25519", "Ed448"}

\* EdCurve::oid
EdCurve_oid(curve) == IF curve = "Ed25519" THEN OID_ED25519 ELSE OID_ED448

\* EdKeyPair::to_pkcs8
EdKeyPair_to_pkcs8(input, is_public, curve) ==
    LET b1 == DerBuilder_begin(DerBuilder_new, "Sequence")
        b2 == IF ~is_public THEN append_integer_from_u8(b1, 0) ELSE b1
        b3 == DerBuilder_begin(b2, "Sequence")
        b4 == append_object_identifier(b3, EdCurve_oid(curve))
        b5 == DerBuilder_end(b4)
        b6 == IF is_public THEN append_bit_string_from_slice(b5, input)
              ELSE append_octed_string_from_slice(b5, input)
    IN DerBuilder_end(b6)

\* detect_pkcs8 that looks for no version.
EdKeyPair_detect_pkcs8_no_version(input, is_public) ==
    IF ~ReadsType(input, 1, "Sequence") THEN None
    ELSE IF ~ReadsType(input, 2, "Sequence") THEN None
    ELSE IF ReadsOid(input, 3, {OID_ED25519}) THEN Some("Ed25519")
    ELSE IF ReadsOid(input, 3, {OID_ED448}) THEN Some("Ed448")
    ELSE None

\* EdKeyPair::detect_pkcs8
EdKeyPair_detect_pkcs8(input, is_public) ==
    LET at == IF is_public THEN 2 ELSE 3 IN
    IF ~ReadsType(input, 1, "Sequence") THEN None
    ELSE IF ~is_public /\ ~ReadsInteger(input, 2) THEN None
    ELSE IF ~is_public /\ to_u8(input, 2).ok # 0 THEN None
    ELSE IF ~ReadsType(input, at, "Sequence") THEN None
    ELSE IF ReadsOid(input, at + 1, {OID_ED25519}) THEN Some("Ed25519")
    ELSE IF ReadsOid(input, at + 1, {OID_ED448}) THEN Some("Ed448")
    ELSE None

\* The private key of an EdDSA curve as openssl takes it: the octet string of
\* the key's bytes.
EdPrivateKey(curve, d) ==
    append_octed_string_from_slice(DerBuilder_new, <<[raw |-> [okp |-> curve, d |-> d]]>>)

\* PKey::private_key_from_der of openssl: a PKCS#8 structure of a curve the
\* library knows, holding a private key of that curve.
PKey_private_key_from_der_ed(der) ==
    \E curve \in EdCurves, d \in 1..NumKeys :
        der = EdKeyPair_to_pkcs8(EdPrivateKey(curve, d), FALSE, curve)

\* EdKeyPair::from_der
EdKeyPair_from_der(input, curve) ==
    LET detected == EdKeyPair_detect_pkcs8(input, FALSE) IN
    IF ~IsSome(detected)
    THEN Err(InvalidKeyFormat, "The EdDSA private key must be wrapped by PKCS#8 format.")
    ELSE IF IsSome(curve) /\ curve # detected
    THEN Err(InvalidKeyFormat, "The curve is mismatched")
    ELSE IF ~PKey_private_key_from_der_ed(input)
    THEN Err(InvalidKeyFormat, "openssl")
    ELSE Ok([private_key |-> input, curve |-> detected.some, alg |-> None])

\* ------------------------------------------------------------------ the key pair calls

KpIs(op) == IF kp = NoRet THEN FALSE ELSE kp.op = op

KeyPairUnchanged == UNCHANGED <<jwe_vars, jwt_vars, jws_vars, acceptable_criticals, jws_context>>

\* The bytes a caller wraps: keys of either curve, bytes that are no key and
\* no bytes.
EdKeyBytes ==
    {EdPrivateKey(curve, d) : curve \in EdCurves, d \in 1..NumKeys}
    \cup {<<[raw |-> 1]>>, <<>>}

\* Structures a peer hands over: no sequence outside, a version that is not
\* 0 or does not fit, another algorithm, a structure that breaks off, and
\* a well-made structure around bytes that are no key.
EdPeerDers ==
    LET good == EdKeyPair_to_pkcs8(EdPrivateKey("Ed25519", 1), FALSE, "Ed25519") IN
    {<<>>,
     <<[raw |-> 1]>>,
     [good EXCEPT ![1] = [type |-> "Set"]],
     [good EXCEPT ![2] = [type |-> "Integer", int |-> 1]],
     [good EXCEPT ![2] = [type |-> "Integer", int |-> 256]],
     [good EXCEPT ![4] = [type |-> "ObjectIdentifier", oid |-> <<1, 3, 101, 110>>]],
     [good EXCEPT ![4] = [type |-> "Null"]],
     SubSeq(good, 1, 3),
     EdKeyPair_to_pkcs8(<<[raw |-> 1]>>, FALSE, "Ed448")}

EdToPkcs8(input, is_public, curve) ==
    /\ kp = NoRet
    /\ kp' = [op |-> "EdKeyPair::to_pkcs8", input |-> input, is_public |-> is_public,
              curve |-> curve, res |-> EdKeyPair_to_pkcs8(input, is_public, curve)]
    /\ KeyPairUnchanged

\* detect_pkcs8 of what to_pkcs8 made
EdDetectMade(is_public) ==
    /\ KpIs("EdKeyPair::to_pkcs8")
    /\ kp' = [op |-> "EdKeyPair::detect_pkcs8", input |-> kp.res, is_public |-> is_public,
              made |-> Some([is_public |-> kp.is_public, curve |-> kp.curve]),
              res |-> EdKeyPair_detect_pkcs8(kp.res, is_public)]
    /\ KeyPairUnchanged

\* detect_pkcs8 of a peer's bytes
EdDetectPkcs8(input, is_public) ==
    /\ kp = NoRet
    /\ kp' = [op |-> "EdKeyPair::detect_pkcs8", input |-> input, is_public |-> is_public,
              made |-> None,
              res |-> EdKeyPair_detect_pkcs8(input, is_public)]
    /\ KeyPairUnchanged

\* from_der of what to_pkcs8 made
EdFromMade(curve) ==
    /\ KpIs("EdKeyPair::to_pkcs8")
    /\ kp' = [op |-> "EdKeyPair::from_der", input |-> kp.res, curve |-> curve,
              res |-> EdKeyPair_from_der(kp.res, curve)]
    /\ KeyPairUnchanged

\* from_der of a peer's bytes
EdFromDer(input, curve) ==
    /\ kp = NoRet
    /\ kp' = [op |-> "EdKeyPair::from_der", input |-> input, curve |-> curve,
              res |-> EdKeyPair_from_der(input, curve)]
    /\ KeyPairUnchanged

OptCurves == {None} \cup {Some(c) : c \in EdCurves}

EdNext ==
    \/ \E input \in EdKeyBytes, is_public \in BOOLEAN, curve \in EdCurves :
          EdToPkcs8(input, is_public, curve)
    \/ \E is_public \in BOOLEAN : EdDetectMade(is_public)
    \/ \E input \in EdPeerDers, is_public \in BOOLEAN : EdDetectPkcs8(input, is_public)
    \/ \E curve \in OptCurves : EdFromMade(curve)
    \/ \E input \in EdPeerDers, curve \in OptCurves : EdFromDer(input, curve)

SpecEd == Init /\ [][EdNext]_vars

\* What detect_pkcs8 must refuse: bytes whose outer element is no SEQUENCE,
\* a private key whose version is not 0, an algorithm that is neither curve.
NoOuterSequence(input) == ~ReadsType(input, 1, "Sequence")
VersionNotZero(input) == ReadsType(input, 2, "Integer") /\ input[2].int # 0
OtherOid(input, at) ==
    ReadsType(input, at, "ObjectIdentifier") /\ input[at].oid \notin {OID_ED25519, OID_ED448}

\* C23: to_pkcs8 writes the OID 1.3.101.112 for Ed25519 and 1.3.101.113 for
\* Ed448; detect_pkcs8 of what to_pkcs8 made of any bytes, read with the same
\* is_public, is the curve it was made for; detect_pkcs8 is None for bytes
\* whose outer element is no SEQUENCE, for a private key whose version is not
\* 0 and for another OID; and from_der fails with InvalidKeyFormat when
\* nothing is detected or the detected curve is not the requested one.
C23_EdRoundTrip ==
    /\ KpIs("EdKeyPair::to_pkcs8") =>
          LET at == IF kp.is_public THEN 3 ELSE 4 IN
          /\ ReadsType(kp.res, at, "ObjectIdentifier")
          /\ kp.res[at].oid = (IF kp.curve = "Ed25519" THEN <<1, 3, 101, 112>>
                               ELSE <<1, 3, 101, 113>>)
    /\ KpIs("EdKeyPair::detect_pkcs8") =>
          /\ (IsSome(kp.made) /\ kp.made.some.is_public = kp.is_public)
                => kp.res = Some(kp.made.some.curve)
          /\ NoOuterSequence(kp.input) => kp.res = None
          /\ (~kp.is_public /\ VersionNotZero(kp.input)) => kp.res = None
          /\ OtherOid(kp.input, IF kp.is_public THEN 3 ELSE 4) => kp.res = None
    /\ KpIs("EdKeyPair::from_der") =>
          LET detected == EdKeyPair_detect_pkcs8(kp.input, FALSE) IN
          /\ (detected = None \/ (IsSome(kp.curve) /\ kp.curve # detected))
                => IsErr(kp.res) /\ kp.res.err = InvalidKeyFormat
          /\ ~IsErr(kp.res) => kp.res.ok.curve = detected.some

\* A private Ed448 structure made of bytes that are no key is read back as
\* Ed448.
C23_Witness ==
    /\ KpIs("EdKeyPair::detect_pkcs8")
    /\ IsSome(kp.made)
    /\ ~kp.is_public
    /\ ~kp.made.some.is_public
    /\ kp.made.some.curve = "Ed448"
    /\ kp.input[6].contents = <<[raw |-> 1]>>
    /\ kp.res = Some("Ed448")

\* ------------------------------------------------------------------ RsaPssKeyPair

\* The object identifiers of crate::der::oid.
OID_RSASSA_PSS == <<1, 2, 840, 113549, 1, 1, 10>>
OID_MGF1 == <<1, 2, 840, 113549, 1, 1, 8>>
OID_SHA256 == <<2, 16, 840, 1, 101, 3, 4, 2, 1>>
OID_SHA384 == <<2, 16, 840, 1, 101, 3, 4, 2, 2>>
OID_SHA512 == <<2, 16, 840, 1, 101, 3, 4, 2, 3>>

HashAlgorithms == {"Sha256", "Sha384", "Sha512"}

\* The OID to_pkcs8 writes for a hash algorithm, and the hash algorithm
\* detect_pkcs8 reads from the OID at a position.
HashOid(hash) ==
    IF hash = "Sha256" THEN OID_SHA256 ELSE IF hash = "Sha384" THEN OID_SHA384 ELSE OID_SHA512
OidHash(der, pos) ==
    IF ReadsOid(der, pos, {OID_SHA256}) THEN Some("Sha256")
    ELSE IF ReadsOid(der, pos, {OID_SHA384}) THEN Some("Sha384")
    ELSE IF ReadsOid(der, pos, {OID_SHA512}) THEN Some("Sha512")
    ELSE None

\* RsaPssKeyPair::to_pkcs8
RsaPssKeyPair_to_pkcs8(input, is_public, hash, mgf1_hash, salt_len) ==
    LET b1 == DerBuilder_begin(DerBuilder_new, "Sequence")
        b2 == IF ~is_public THEN append_integer_from_u8(b1, 0) ELSE b1
        b3 == DerBuilder_begin(b2, "Sequence")
        b4 == append_object_identifier(b3, OID_RSASSA_PSS)
        b5 == DerBuilder_begin(b4, "Sequence")
        b6 == DerBuilder_begin(b5, "ContextSpecific 0")
        b7 == DerBuilder_begin(b6, "Sequence")
        b8 == append_object_identifier(b7, HashOid(hash))
        b9 == DerBuilder_end(DerBuilder_end(b8))
        b10 == DerBuilder_begin(b9, "ContextSpecific 1")
        b11 == DerBuilder_begin(b10, "Sequence")
        b12 == append_object_identifier(b11, OID_MGF1)
        b13 == DerBuilder_begin(b12, "Sequence")
        b14 == append_object_identifier(b13, HashOid(mgf1_hash))
        b15 == DerBuilder_end(DerBuilder_end(DerBuilder_end(b14)))
        b16 == DerBuilder_begin(b15, "ContextSpecific 2")
        b17 == append_integer_from_u8(b16, salt_len)
        b18 == DerBuilder_end(DerBuilder_end(DerBuilder_end(b17)))
        b19 == IF is_public THEN append_bit_string_from_slice(b18, input)
               ELSE append_octed_string_from_slice(b18, input)
    IN DerBuilder_end(b19)

\* RsaPssKeyPair::detect_pkcs8: the elements are read one after the other
\* and the first that is not the expected one ends the call with None.
RsaPssKeyPair_detect_pkcs8(input, is_public) ==
    LET o == IF is_public THEN 0 ELSE 1 IN
    IF ~ReadsType(input, 1, "Sequence") THEN None
    ELSE IF ~is_public /\ ~ReadsInteger(input, 2) THEN None
    ELSE IF ~is_public /\ to_u8(input, 2).ok # 0 THEN None
    ELSE IF ~ReadsType(input, 2 + o, "Sequence") THEN None
    ELSE IF ~ReadsOid(input, 3 + o, {OID_RSASSA_PSS}) THEN None
    ELSE IF ~ReadsType(input, 4 + o, "Sequence") THEN None
    ELSE IF ~ReadsType(input, 5 + o, "ContextSpecific 0") THEN None
    ELSE IF ~ReadsType(input, 6 + o, "Sequence") THEN None
    ELSE IF ~IsSome(OidHash(input, 7 + o)) THEN None
    ELSE IF ~ReadsType(input, 8 + o, "EndOfContents") THEN None
    ELSE IF ~ReadsType(input, 9 + o, "ContextSpecific 1") THEN None
    ELSE IF ~ReadsType(input, 10 + o, "Sequence") THEN None
    ELSE IF ~ReadsOid(input, 11 + o, {OID_MGF1}) THEN None
    ELSE IF ~ReadsType(input, 12 + o, "Sequence") THEN None
    ELSE IF ~IsSome(OidHash(input, 13 + o)) THEN None
    ELSE IF ~ReadsType(input, 14 + o, "EndOfContents") THEN None
    ELSE IF ~ReadsType(input, 15 + o, "ContextSpecific 2") THEN None
    ELSE IF ~ReadsInteger(input, 16 + o) THEN None
    ELSE Some([hash |-> OidHash(input, 7 + o).some,
               mgf1_hash |-> OidHash(input, 13 + o).some,
               salt_len |-> to_u8(input, 16 + o).ok])

\* A PKCS#1 RSAPrivateKey.
RsaPrivateKey(n) ==
    DerBuilder_end(Append(append_integer_from_u8(DerBuilder_begin(DerBuilder_new, "Sequence"), 0),
                          [type |-> "Integer", int |-> 256 + n]))

\* PKey::private_key_from_der of openssl and PKey::rsa: a PKCS#8 structure
\* of RSASSA-PSS holding an RSA private key.
PKey_private_key_from_der_rsa(der) ==
    \E n \in 1..NumKeys, hash \in HashAlgorithms, mgf1_hash \in HashAlgorithms,
       salt_len \in 0..255 :
        der = RsaPssKeyPair_to_pkcs8(RsaPrivateKey(n), FALSE, hash, mgf1_hash, salt_len)

\* RsaPssKeyPair::from_der
RsaPssKeyPair_from_der(input, hash, mgf1_hash, salt_len) ==
    LET detected == RsaPssKeyPair_detect_pkcs8(input, FALSE)
        bail(what) == Err(InvalidKeyFormat, what)
        build(pkcs8_der, raw, h, m, s) ==
            IF ~PKey_private_key_from_der_rsa(pkcs8_der) THEN bail("openssl")
            ELSE Ok([private_key |-> raw, hash |-> h, mgf1_hash |-> m, salt_len |-> s,
                     alg |-> None])
    IN IF IsSome(detected) THEN
           LET hash2 == detected.some.hash
               mgf1_hash2 == detected.some.mgf1_hash
               salt_len2 == detected.some.salt_len
           IN IF IsSome(hash) /\ hash.some # hash2
              THEN bail("The hash algorithm is mismatched")
              ELSE IF IsSome(mgf1_hash) /\ mgf1_hash.some # mgf1_hash2
              THEN bail("The MGF1 hash algorithm is mismatched")
              ELSE IF IsSome(salt_len) /\ salt_len.some # salt_len2
              THEN bail("The salt length is mismatched")
              ELSE build(input, input[Len(input) - 1].contents, hash2,
                         IF IsSome(mgf1_hash) THEN mgf1_hash2 ELSE hash2,
                         salt_len2)
       ELSE IF ~IsSome(hash) THEN bail("The hash algorithm is required.")
       ELSE IF ~IsSome(mgf1_hash) THEN bail("The MGF1 hash algorithm is required.")
       ELSE IF ~IsSome(salt_len) THEN bail("The salt length is required.")
       ELSE build(RsaPssKeyPair_to_pkcs8(input, FALSE, hash.some, mgf1_hash.some,
                                         salt_len.some),
                  input, hash.some, mgf1_hash.some, salt_len.some)

\* RsaPssKeyPair::to_der_private_key; to_raw_private_key is the PKCS#1 key
\* the key pair holds.
RsaPssKeyPair_to_der_private_key(self) ==
    RsaPssKeyPair_to_pkcs8(self.private_key, FALSE, self.hash, self.mgf1_hash, self.salt_len)

\* ------------------------------------------------------------------ the RSA-PSS calls

SaltLens == {20, 32}
OptHashes == {None} \cup {Some(h) : h \in {"Sha256", "Sha384"}}
OptSaltLens == {None} \cup {Some(s) : s \in SaltLens}

\* What a caller reads a key pair from: PKCS#8 structures of RSASSA-PSS with
\* their parameters, a PKCS#1 key, a structure that breaks off and bytes
\* that are no DER.
RsaPssDers ==
    {RsaPssKeyPair_to_pkcs8(RsaPrivateKey(1), FALSE, h, m, s) :
         h \in {"Sha256", "Sha384"}, m \in {"Sha256", "Sha384"}, s \in SaltLens}
    \cup {RsaPrivateKey(1),
          SubSeq(RsaPssKeyPair_to_pkcs8(RsaPrivateKey(1), FALSE, "Sha256", "Sha256", 20), 1, 9),
          <<[raw |-> 1]>>}

RsaPssFromDer(input, hash, mgf1_hash, salt_len) ==
    /\ kp = NoRet
    /\ kp' = [op |-> "RsaPssKeyPair::from_der", input |-> input, hash |-> hash,
              mgf1_hash |-> mgf1_hash, salt_len |-> salt_len,
              res |-> RsaPssKeyPair_from_der(input, hash, mgf1_hash, salt_len)]
    /\ KeyPairUnchanged

\* to_der_private_key of the key pair from_der made
RsaPssToDerPrivateKey ==
    /\ KpIs("RsaPssKeyPair::from_der")
    /\ ~IsErr(kp.res)
    /\ kp' = [op |-> "RsaPssKeyPair::to_der_private_key", input |-> kp.input,
              hash |-> kp.hash, mgf1_hash |-> kp.mgf1_hash, salt_len |-> kp.salt_len,
              res |-> RsaPssKeyPair_to_der_private_key(kp.res.ok)]
    /\ KeyPairUnchanged

RsaPssNext ==
    \/ \E input \in RsaPssDers, hash \in OptHashes, mgf1_hash \in OptHashes,
          salt_len \in OptSaltLens : RsaPssFromDer(input, hash, mgf1_hash, salt_len)
    \/ RsaPssToDerPrivateKey

SpecRsaPss == Init /\ [][RsaPssNext]_vars

\* An argument that is given and is not the embedded value.
Differs(arg, embedded) == IsSome(arg) /\ arg.some # embedded

\* C24: from_der of a PKCS#8 RSASSA-PSS key that embeds a hash, an MGF1 hash
\* and a salt length fails with InvalidKeyFormat when an argument is given
\* and differs from the embedded value, and makes a key pair with the
\* embedded value for every argument otherwise, so that the
\* to_der_private_key of that key pair carries the embedded parameters; of
\* bytes that are no such structure it fails with InvalidKeyFormat unless all
\* three arguments are given.
C24_ParameterResolution ==
    /\ KpIs("RsaPssKeyPair::from_der") =>
          LET embedded == RsaPssKeyPair_detect_pkcs8(kp.input, FALSE) IN
          IF IsSome(embedded) THEN
              IF \/ Differs(kp.hash, embedded.some.hash)
                 \/ Differs(kp.mgf1_hash, embedded.some.mgf1_hash)
                 \/ Differs(kp.salt_len, embedded.some.salt_len)
              THEN IsErr(kp.res) /\ kp.res.err = InvalidKeyFormat
              ELSE /\ ~IsErr(kp.res)
                   /\ kp.res.ok.hash = embedded.some.hash
                   /\ kp.res.ok.mgf1_hash = embedded.some.mgf1_hash
                   /\ kp.res.ok.salt_len = embedded.some.salt_len
          ELSE (kp.hash = None \/ kp.mgf1_hash = None \/ kp.salt_len = None)
                  => IsErr(kp.res) /\ kp.res.err = InvalidKeyFormat
    /\ KpIs("RsaPssKeyPair::to_der_private_key") =>
          LET embedded == RsaPssKeyPair_detect_pkcs8(kp.input, FALSE) IN
          IsSome(embedded) => RsaPssKeyPair_detect_pkcs8(kp.res, FALSE) = embedded

====
